---- MODULE Spec2Model ----
(***************************************************************************)
(* A model of the document-transform utilities of docforge-flow-ui         *)
(* (src/src/utils/downloadUtils.ts): createMergedDocument,                 *)
(* createSplitDocuments and convertDocumentFormat.                         *)
(*                                                                         *)
(* Representation.  A JavaScript string is a sequence of code points       *)
(* (naturals); Chars("...") writes a literal.  A byte buffer is a sequence *)
(* of naturals in 0..255.  A File is a record                              *)
(*   [name, type, bytes, reads]                                            *)
(* where reads = <<r1, r2>> tells whether the first read of the file made  *)
(* by a call, and every later read made by that call, succeeds: the        *)
(* browser reads a File from disk on every arrayBuffer()/text() call and   *)
(* the promise rejects when the file can no longer be read.  A Blob is     *)
(* [type, bytes]; a Blob built from a string holds its UTF-8 encoding.     *)
(*                                                                         *)
(* The functions are first modelled as operators from their inputs to the  *)
(* outcome of the call; the later sections model the reads of a merge one  *)
(* by one, the downloads with their timers, and the screens that call the  *)
(* functions (src/src/components).                                         *)
(***************************************************************************)
EXTENDS Integers, Sequences, FiniteSets, TLC

VARIABLES
    call,       \* the call of a utility function that is under way or settled
    result,     \* the state of the promise that call returned
    history,    \* the calls settled before, each with its result
    clock,      \* the time of the page, in milliseconds
    fileReads,  \* the reads of File objects: those in flight and the log of events
    browser,    \* object URLs, anchors attached to the document, and what was done with them
    timers,     \* the timeouts and intervals that are set
    screen      \* the state of the mounted screen component

vars == <<call, result, history, clock, fileReads, browser, timers, screen>>

\* What a call of a utility function by itself leaves alone.
envVars == <<history, clock, fileReads, browser, timers, screen>>

(***************************************************************************)
(* Strings                                                                 *)
(***************************************************************************)

\* The printable ASCII characters of code points 32..95 and 97..126, in order.
PrintableLow == " !\"#$%&'()*+,-./0123456789:;<=>?@ABCDEFGHIJKLMNOPQRSTUVWXYZ[\\]^_"

PrintableHigh == "abcdefghijklmnopqrstuvwxyz{|}~"

\* The code point of a one-character string.
CodeOf(c) ==
    IF c = "\n" THEN 10
    ELSE IF c = "\r" THEN 13
    ELSE IF c = "\t" THEN 9
    ELSE IF \E k \in 1..Len(PrintableLow) : SubSeq(PrintableLow, k, k) = c
         THEN 31 + (CHOOSE k \in 1..Len(PrintableLow) : SubSeq(PrintableLow, k, k) = c)
         ELSE 96 + (CHOOSE k \in 1..Len(PrintableHigh) : SubSeq(PrintableHigh, k, k) = c)

\* A string literal as a sequence of code points.
Chars(s) == [i \in 1..Len(s) |-> CodeOf(SubSeq(s, i, i))]

\* Number.prototype.toString for an integer.
RECURSIVE NatDigits(_)
NatDigits(n) ==
    IF n < 10 THEN <<48 + n>> ELSE NatDigits(n \div 10) \o <<48 + (n % 10)>>

NumToString(n) == IF n < 0 THEN <<45>> \o NatDigits(0 - n) ELSE NatDigits(n)

\* String.prototype.toLowerCase (on the characters the model uses, only the
\* ASCII capitals change).
ToLowerCase(s) == [i \in 1..Len(s) |-> IF s[i] \in 65..90 THEN s[i] + 32 ELSE s[i]]

\* String.prototype.startsWith
StartsWith(s, p) == Len(s) >= Len(p) /\ SubSeq(s, 1, Len(p)) = p

\* Whether p occurs in s at index i (1-based).
OccursAt(s, p, i) == i >= 1 /\ i + Len(p) - 1 <= Len(s) /\ SubSeq(s, i, i + Len(p) - 1) = p

\* The first index >= from at which p occurs in s, or 0 when there is none.
IndexOfFrom(s, p, from) ==
    LET hits == {i \in from..(Len(s) - Len(p) + 1) : OccursAt(s, p, i)}
    IN IF hits = {} THEN 0 ELSE CHOOSE i \in hits : \A j \in hits : i <= j

\* s.split('.').pop(): what follows the last '.', the whole string when it has none.
LastDotSegment(s) ==
    LET dots == {i \in 1..Len(s) : s[i] = 46}
    IN IF dots = {} THEN s
       ELSE LET last == CHOOSE i \in dots : \A j \in dots : j <= i
            IN SubSeq(s, last + 1, Len(s))

\* The concatenation of a sequence of sequences, by halves.
RECURSIVE Flatten(_)
Flatten(parts) ==
    IF parts = <<>> THEN <<>>
    ELSE IF Len(parts) = 1 THEN parts[1]
    ELSE LET h == Len(parts) \div 2
         IN Flatten(SubSeq(parts, 1, h)) \o Flatten(SubSeq(parts, h + 1, Len(parts)))

\* s.replace(/\n/g, r) and its like: every occurrence of the one character c replaced by r.
ReplaceAllChar(s, c, r) == Flatten([i \in 1..Len(s) |-> IF s[i] = c THEN r ELSE <<s[i]>>])

\* s.replace(p, r) with a string pattern: the first occurrence only.
ReplaceFirst(s, p, r) ==
    LET i == IndexOfFrom(s, p, 1)
    IN IF i = 0 THEN s
       ELSE SubSeq(s, 1, i - 1) \o r \o SubSeq(s, i + Len(p), Len(s))

(***************************************************************************)
(* Encodings                                                               *)
(***************************************************************************)

ReplacementChar == 65533

Utf8Bom == <<239, 187, 191>>

\* The WHATWG UTF-8 decoder from byte i on: a malformed sequence yields one
\* U+FFFD and decoding resumes at the byte that broke it.
RECURSIVE Utf8DecodeFrom(_, _)
Utf8DecodeFrom(b, i) ==
    IF i > Len(b) THEN <<>>
    ELSE LET b0 == b[i]
             need == IF b0 < 128 THEN 0
                     ELSE IF b0 \in 194..223 THEN 1
                     ELSE IF b0 \in 224..239 THEN 2
                     ELSE IF b0 \in 240..244 THEN 3
                     ELSE 0 - 1
             lower == IF b0 = 224 THEN 160 ELSE IF b0 = 240 THEN 144 ELSE 128
             upper == IF b0 = 237 THEN 159 ELSE IF b0 = 244 THEN 143 ELSE 191
             Cont(k) == /\ i + k <= Len(b)
                        /\ IF k = 1 THEN b[i + k] \in lower..upper ELSE b[i + k] \in 128..191
             got == Cardinality({k \in 1..need : \A j \in 1..k : Cont(j)})
             lead == IF need = 1 THEN b0 - 192 ELSE IF need = 2 THEN b0 - 224 ELSE b0 - 240
             RECURSIVE Acc(_, _)
             Acc(v, k) == IF k > need THEN v ELSE Acc(v * 64 + (b[i + k] - 128), k + 1)
         IN IF need = 0 THEN <<b0>> \o Utf8DecodeFrom(b, i + 1)
            ELSE IF need < 0 THEN <<ReplacementChar>> \o Utf8DecodeFrom(b, i + 1)
            ELSE IF got = need THEN <<Acc(lead, 1)>> \o Utf8DecodeFrom(b, i + need + 1)
            ELSE <<ReplacementChar>> \o Utf8DecodeFrom(b, i + got + 1)

\* "UTF-8 decode" of Blob.text() and of TextDecoder('utf-8'): a leading byte
\* order mark is dropped.
Utf8Decode(b) ==
    IF Len(b) >= 3 /\ SubSeq(b, 1, 3) = Utf8Bom THEN Utf8DecodeFrom(b, 4) ELSE Utf8DecodeFrom(b, 1)

\* The UTF-8 encoding of one code point.
Utf8EncodeChar(c) ==
    IF c < 128 THEN <<c>>
    ELSE IF c < 2048 THEN <<192 + (c \div 64), 128 + (c % 64)>>
    ELSE IF c < 65536 THEN <<224 + (c \div 4096), 128 + ((c \div 64) % 64), 128 + (c % 64)>>
    ELSE <<240 + (c \div 262144), 128 + ((c \div 4096) % 64), 128 + ((c \div 64) % 64), 128 + (c % 64)>>

\* new Blob([string]): the string's UTF-8 encoding.
Utf8Encode(s) == Flatten([i \in 1..Len(s) |-> Utf8EncodeChar(s[i])])

\* TextDecoder('latin1') is the windows-1252 decoder: bytes 0x80..0x9F map through this table.
Windows1252High ==
    <<8364, 129, 8218, 402, 8222, 8230, 8224, 8225, 710, 8240, 352, 8249, 338, 141, 381, 143,
      144, 8216, 8217, 8220, 8221, 8226, 8211, 8212, 732, 8482, 353, 8250, 339, 157, 382, 376>>

Latin1Decode(b) ==
    [i \in 1..Len(b) |-> IF b[i] \in 128..159 THEN Windows1252High[b[i] - 127] ELSE b[i]]

(***************************************************************************)
(* Files, blobs and promise outcomes                                       *)
(***************************************************************************)

\* Whether the k-th read (arrayBuffer() or text()) that a call makes of file f succeeds.
ReadOk(f, k) == f.reads[IF k < Len(f.reads) THEN k ELSE Len(f.reads)]

\* File.size.  A file too large to be written out byte by byte carries its
\* size in a field of its own.
Size(f) == IF "size" \in DOMAIN f THEN f.size ELSE Len(f.bytes)

NoBlob == [type |-> <<>>, bytes |-> <<>>, none |-> TRUE]

\* new Blob(parts, {type}): the type is kept in ASCII lower case.
Blob(bytes, type) == [type |-> ToLowerCase(type), bytes |-> bytes, none |-> FALSE]

\* The outcome of a call: the promise's state, the blob (merge, convert) or
\* the artifacts (split) it is fulfilled with, the error it is rejected with,
\* and the branch of the function that produced it.
Fulfilled(blob, path) ==
    [status |-> "fulfilled", blob |-> blob, artifacts |-> <<>>, error |-> "", path |-> path]

FulfilledWith(artifacts, path) ==
    [status |-> "fulfilled", blob |-> NoBlob, artifacts |-> artifacts, error |-> "", path |-> path]

Rejected(error, path) ==
    [status |-> "rejected", blob |-> NoBlob, artifacts |-> <<>>, error |-> error, path |-> path]

NoFilesError == "No files to merge"

\* The rejection of arrayBuffer()/text() on a file that cannot be read.
ReadError == "NotReadableError"

Pending == [status |-> "pending", blob |-> NoBlob, artifacts |-> <<>>, error |-> "", path |-> ""]

\* No reads made, no object URL or anchor created, no screen mounted.  The
\* timers are kept in the order they were set in.
NoReads == [pc |-> "idle", inFlight |-> {}, log |-> <<>>]

NoBrowser == [urls |-> <<>>, anchors |-> {}, log |-> <<>>]

NoScreen == [kind |-> "none"]

\* The page at rest around a single call of a utility function.
EnvIdle ==
    /\ history = <<>>
    /\ clock = 0
    /\ fileReads = NoReads
    /\ browser = NoBrowser
    /\ timers = <<>>
    /\ screen = NoScreen

(***************************************************************************)
(* createMergedDocument                                                    *)
(***************************************************************************)

\* const fileExtension = firstFile.name.split('.').pop()?.toLowerCase()
FileExtension(f) == ToLowerCase(LastDotSegment(f.name))

TextSlash == Chars("text/")

\* file.type.startsWith('text/')
IsTextTyped(f) == StartsWith(f.type, TextSlash)

ExtPdf == Chars("pdf")

ExtTxt == Chars("txt")

ExtCsv == Chars("csv")

OfficeExtensions == {Chars("docx"), Chars("pptx"), Chars("doc"), Chars("ppt")}

TypePdf == Chars("application/pdf")

TypeTextPlain == Chars("text/plain")

\* The policy the first file selects: "pdf", "text", "office" or "raw".
MergePolicy(files) ==
    LET firstFile == files[1]
        fileExtension == FileExtension(firstFile)
    IN IF fileExtension = ExtPdf THEN "pdf"
       ELSE IF IsTextTyped(firstFile) \/ fileExtension = ExtTxt \/ fileExtension = ExtCsv THEN "text"
       ELSE IF fileExtension \in OfficeExtensions THEN "office"
       ELSE "raw"

\* pdfString.match(/\(([^)]+)\)/g), each match with its parentheses sliced off:
\* from index i on, a '(' followed by one or more characters other than ')'
\* and then ')'; the search goes on after the match.
RECURSIVE ParenMatches(_, _)
ParenMatches(s, i) ==
    IF i > Len(s) THEN <<>>
    ELSE IF s[i] # 40 THEN ParenMatches(s, i + 1)
    ELSE LET close == IndexOfFrom(s, <<41>>, i + 1)
         IN IF close = 0 THEN <<>>
            ELSE IF close = i + 1 THEN ParenMatches(s, i + 1)
            ELSE <<SubSeq(s, i + 1, close - 1)>> \o ParenMatches(s, close + 1)

\* Array.prototype.join
RECURSIVE Join(_, _)
Join(parts, sep) ==
    IF parts = <<>> THEN <<>>
    ELSE IF Len(parts) = 1 THEN parts[1]
    ELSE parts[1] \o sep \o Join(Tail(parts), sep)

ContentFrom == Chars("Content from ")

DocumentWord == Chars("Document ")

ContentWord == Chars(" content")

\* The entry of pdfContents for the file at (1-based) position index.
PdfEntry(file, index) ==
    LET pdfString == Latin1Decode(file.bytes)
        textMatches == ParenMatches(pdfString, 1)
        extractedText == IF textMatches # <<>> THEN Join(textMatches, <<32>>)
                         ELSE ContentFrom \o file.name
    IN [filename |-> file.name,
        content |-> IF extractedText # <<>> THEN extractedText
                    ELSE DocumentWord \o NumToString(index) \o ContentWord,
        originalSize |-> Size(file)]

PdfDocOpen == Chars("--- Document ")

PdfDocClose == Chars(" ---\n")

\* pdfContents.map((pdf, index) => `--- Document ${index + 1}: ${pdf.filename} ---\n${pdf.content}\n\n`).join('')
RECURSIVE PdfMergedContent(_, _)
PdfMergedContent(files, i) ==
    IF i > Len(files) THEN <<>>
    ELSE LET pdf == PdfEntry(files[i], i)
         IN PdfDocOpen \o NumToString(i) \o <<58, 32>> \o pdf.filename \o PdfDocClose
            \o pdf.content \o <<10, 10>> \o PdfMergedContent(files, i + 1)

PdfHeader == Chars("%PDF-1.4\n")

PdfBody ==
    << Chars("1 0 obj\n<< /Type /Catalog /Pages 2 0 R >>\nendobj\n2 0 obj\n<< /Type /Pages /Kids [3 0 R] /Count 1 >>\nendobj\n3 0 obj\n<< /Type /Page /Parent 2 0 R /MediaBox [0 0 612 792] /Contents 4 0 R >>\nendobj\n4 0 obj\n<< /Length "),
       Chars(" >>\nstream\nBT\n/F1 12 Tf\n50 750 Td\n("),
       Chars(") Tj\nET\nendstream\nendobj\nxref\n0 5\n0000000000 65535 f\n0000000009 00000 n\n0000000058 00000 n\n0000000115 00000 n\n0000000204 00000 n\ntrailer\n<< /Size 5 /Root 1 0 R >>\nstartxref\n") >>

PdfEof == Chars("\n%%EOF")

PdfLineBreak == Chars(") Tj T* (")

\* The synthetic single-page PDF built around mergedContent.
SyntheticPdf(mergedContent) ==
    PdfHeader \o PdfBody[1] \o NumToString(Len(mergedContent)) \o PdfBody[2]
    \o ReplaceAllChar(mergedContent, 10, PdfLineBreak) \o PdfBody[3]
    \o NumToString(300 + Len(mergedContent)) \o PdfEof

\* The buffers of files[i..] read one after the other, each file's k-th read:
\* the concatenation so far, or the failure of the first read that fails.
RECURSIVE ReadAll(_, _, _)
ReadAll(files, i, k) ==
    IF i > Len(files) THEN [ok |-> TRUE, buffers |-> <<>>]
    ELSE IF ~ReadOk(files[i], k) THEN [ok |-> FALSE, buffers |-> <<>>]
    ELSE LET rest == ReadAll(files, i + 1, k)
         IN [ok |-> rest.ok, buffers |-> <<files[i].bytes>> \o rest.buffers]

\* mergedView.set(view, offset); offset += view.length, for every buffer in turn.
\* A variant that lays the buffers out last to first.
RECURSIVE ConcatBuffersReversed(_)
ConcatBuffersReversed(buffers) ==
    IF buffers = <<>> THEN <<>>
    ELSE buffers[Len(buffers)] \o ConcatBuffersReversed(SubSeq(buffers, 1, Len(buffers) - 1))

RECURSIVE ConcatBuffers(_)
ConcatBuffers(buffers) ==
    IF buffers = <<>> THEN <<>>
    ELSE ConcatBuffers(SubSeq(buffers, 1, Len(buffers) - 1)) \o buffers[Len(buffers)]

\* The raw concatenation of the files' buffers (the k-th read of each), labelled type.
RawConcatenation(files, k, type, path) ==
    LET read == ReadAll(files, 1, k)
    IN IF read.ok THEN Fulfilled(Blob(ConcatBuffers(read.buffers), type), path)
       ELSE Rejected(ReadError, path)

\* The PDF policy: every file is read (Promise.all); when a read fails the
\* catch block reads every file again and concatenates the raw buffers.
MergePdf(files) ==
    IF \A i \in 1..Len(files) : ReadOk(files[i], 1)
    THEN Fulfilled(Blob(Utf8Encode(SyntheticPdf(PdfMergedContent(files, 1))), TypePdf), "pdf")
    ELSE RawConcatenation(files, 2, TypePdf, "pdf-fallback")

TextDocOpen == Chars("\n=== Document ")

TextDocClose == Chars(" ===\n\n")

TextDocError == Chars(" (Error reading content) ===\n\n")

\* A variant of the loop that writes the headers and leaves the texts out.
RECURSIVE MergedTextHeadersOnly(_, _)
MergedTextHeadersOnly(files, i) ==
    IF i > Len(files) THEN <<>>
    ELSE TextDocOpen \o NumToString(i) \o <<58, 32>> \o files[i].name \o TextDocClose
         \o <<10, 10>> \o MergedTextHeadersOnly(files, i + 1)

\* The text policy's loop from file i on: a header, the text and a blank
\* line for a file that is read, an error header for one that is not.
RECURSIVE MergedText(_, _)
MergedText(files, i) ==
    IF i > Len(files) THEN <<>>
    ELSE LET file == files[i]
             open == TextDocOpen \o NumToString(i) \o <<58, 32>> \o file.name
         IN (IF ReadOk(file, 1)
             THEN open \o TextDocClose \o Utf8Decode(file.bytes) \o <<10, 10>>
             ELSE open \o TextDocError)
            \o MergedText(files, i + 1)

MergeText(files) ==
    LET firstFile == files[1]
    IN Fulfilled(Blob(Utf8Encode(MergedText(files, 1)),
                      IF firstFile.type # <<>> THEN firstFile.type ELSE TypeTextPlain),
                 "text")

\* Everything after the empty-list check.
MergeNonEmpty(files) ==
    LET policy == MergePolicy(files)
    IN IF policy = "pdf" THEN MergePdf(files)
       ELSE IF policy = "text" THEN MergeText(files)
       ELSE RawConcatenation(files, 1, files[1].type, policy)

\* A variant without the empty-list check: files[0] is undefined and reading
\* its name throws a TypeError.
createMergedDocumentUnchecked(files, outputFilename) ==
    IF Len(files) = 0 THEN Rejected("TypeError", "")
    ELSE MergeNonEmpty(files)

createMergedDocument(files, outputFilename) ==
    IF Len(files) = 0 THEN Rejected(NoFilesError, "")
    ELSE MergeNonEmpty(files)

(***************************************************************************)
(* createSplitDocuments                                                    *)
(***************************************************************************)

\* const originalExtension = originalFile.name.split('.').pop()?.toLowerCase() || 'pdf'
OriginalExtension(f) ==
    LET ext == ToLowerCase(LastDotSegment(f.name))
    IN IF ext # <<>> THEN ext ELSE ExtPdf

\* text.split('\n'): the lines of a text; the empty text has one empty line.
RECURSIVE SplitLines(_)
SplitLines(text) ==
    LET nl == IndexOfFrom(text, <<10>>, 1)
    IN IF nl = 0 THEN <<text>>
       ELSE <<SubSeq(text, 1, nl - 1)>> \o SplitLines(SubSeq(text, nl + 1, Len(text)))

\* A variant that rounds down.
FloorDiv(a, b) == a \div b

\* Math.ceil(a / b) for a >= 0 and b > 0.
CeilDiv(a, b) == (a + b - 1) \div b

Min(a, b) == IF a < b THEN a ELSE b

\* Array.prototype.slice and ArrayBuffer.prototype.slice for 0 <= start:
\* the items at (0-based) positions start..end-1, both ends clamped to the length.
Slice(seq, start, end) == SubSeq(seq, Min(start, Len(seq)) + 1, Min(end, Len(seq)))

Placeholder == Chars("{n}")

\* A variant that leaves the extension out.
SplitFileNameBare(namingPattern, pageNum, originalExtension) ==
    ReplaceFirst(namingPattern, Placeholder, NumToString(pageNum))

\* fullFileName: `${namingPattern.replace('{n}', pageNum.toString())}.${originalExtension}`
SplitFileName(namingPattern, pageNum, originalExtension) ==
    ReplaceFirst(namingPattern, Placeholder, NumToString(pageNum)) \o <<46>> \o originalExtension

\* An artifact {name, content}; lines is the group of lines the text path
\* joined into the content (empty on the binary path).
Artifact(name, content, lines) == [name |-> name, content |-> content, lines |-> lines]

\* The text path: a group of linesPerPage lines for every page number.
SplitText(originalFile, pageNumbers, namingPattern) ==
    LET lines == SplitLines(Utf8Decode(originalFile.bytes))
        linesPerPage == CeilDiv(Len(lines), Len(pageNumbers))
    IN [index \in 1..Len(pageNumbers) |->
           LET startLine == (index - 1) * linesPerPage
               endLine == Min(startLine + linesPerPage, Len(lines))
               group == Slice(lines, startLine, endLine)
           IN Artifact(SplitFileName(namingPattern, pageNumbers[index],
                                     OriginalExtension(originalFile)),
                       Blob(Utf8Encode(Join(group, <<10>>)), originalFile.type),
                       group)]

\* The binary path: a chunk of chunkSize bytes for every page number.
SplitBinary(originalFile, pageNumbers, namingPattern) ==
    LET originalContent == originalFile.bytes
        byteLength == Len(originalContent)
        chunkSize == CeilDiv(byteLength, Len(pageNumbers))
    IN [index \in 1..Len(pageNumbers) |->
           LET startOffset == (index - 1) * chunkSize
               endOffset == Min(startOffset + chunkSize, byteLength)
               actualEndOffset == IF endOffset > startOffset THEN endOffset ELSE byteLength
           IN Artifact(SplitFileName(namingPattern, pageNumbers[index],
                                     OriginalExtension(originalFile)),
                       Blob(Slice(originalContent, startOffset, actualEndOffset),
                            originalFile.type),
                       <<>>)]

\* Whether the split takes the text path.
SplitsAsText(originalFile) == IsTextTyped(originalFile) \/ OriginalExtension(originalFile) = ExtTxt

\* A variant that returns only the artifacts that have content.
SplitArtifactsNonEmpty(originalFile, pageNumbers, namingPattern) ==
    SelectSeq(IF SplitsAsText(originalFile)
              THEN SplitText(originalFile, pageNumbers, namingPattern)
              ELSE SplitBinary(originalFile, pageNumbers, namingPattern),
              LAMBDA a : a.content.bytes # <<>>)

\* The artifacts of the path the file takes, for a non-empty page list.
SplitArtifacts(originalFile, pageNumbers, namingPattern) ==
    IF SplitsAsText(originalFile) THEN SplitText(originalFile, pageNumbers, namingPattern)
    ELSE SplitBinary(originalFile, pageNumbers, namingPattern)

SplitPath(originalFile) == IF SplitsAsText(originalFile) THEN "text" ELSE "binary"

createSplitDocuments(originalFile, pageNumbers, namingPattern) ==
    IF ~ReadOk(originalFile, 1) THEN Rejected(ReadError, "")
    ELSE IF SplitsAsText(originalFile) /\ ~ReadOk(originalFile, 2)
    THEN Rejected(ReadError, "text")
    ELSE IF pageNumbers = <<>> THEN FulfilledWith(<<>>, SplitPath(originalFile))
    ELSE FulfilledWith(SplitArtifacts(originalFile, pageNumbers, namingPattern),
                       SplitPath(originalFile))

(***************************************************************************)
(* convertDocumentFormat                                                   *)
(***************************************************************************)

\* The own properties of the mimeTypes object literal.
MimeTypes ==
    [key \in {"pdf", "docx", "doc", "txt", "rtf", "html", "pptx", "ppt"} |->
        CASE key = "pdf" -> "application/pdf"
          [] key = "docx" -> "application/vnd.openxmlformats-officedocument.wordprocessingml.document"
          [] key = "doc" -> "application/msword"
          [] key = "txt" -> "text/plain"
          [] key = "rtf" -> "application/rtf"
          [] key = "html" -> "text/html"
          [] key = "pptx" -> "application/vnd.openxmlformats-officedocument.presentationml.presentation"
          [] key = "ppt" -> "application/vnd.ms-powerpoint"]

\* The table with keys and values as code points.
MimeTable == {<<Chars(key), Chars(MimeTypes[key])>> : key \in DOMAIN MimeTypes}

\* What the object literal inherits from Object.prototype under a name that
\* is all lower case, as the string a Blob type is converted to: the Object
\* constructor and the prototype object itself.
InheritedProperties ==
    {<<Chars("constructor"), Chars("function Object() { [native code] }")>>,
     <<Chars("__proto__"), Chars("[object Object]")>>}

TypeOctetStream == Chars("application/octet-stream")

TypeTextHtml == Chars("text/html")

\* mimeTypes[key] || 'application/octet-stream': a property lookup on an
\* object literal, own properties first and then the prototype's.
TargetMimeType(key) ==
    IF \E e \in MimeTable : e[1] = key
    THEN (CHOOSE e \in MimeTable : e[1] = key)[2]
    ELSE IF \E e \in InheritedProperties : e[1] = key
    THEN (CHOOSE e \in InheritedProperties : e[1] = key)[2]
    ELSE TypeOctetStream

\* extractedText.replace(/[\x00-\x08\x0B\x0C\x0E-\x1F\x7F-\x9F]/g, ' ')
CleanControls(text) ==
    [i \in 1..Len(text) |->
        IF text[i] \in (0..8) \cup {11, 12} \cup (14..31) \cup (127..159) THEN 32 ELSE text[i]]

TxtFallback ==
    << Chars("Converted from "),
       Chars("\n\nOriginal file size: "),
       Chars(" bytes\nFile type: "),
       Chars("\n\nError occurred during text extraction.") >>

HtmlText ==
    << Chars("<!DOCTYPE html>\n<html lang=\"en\">\n<head>\n    <meta charset=\"UTF-8\">\n    <meta name=\"viewport\" content=\"width=device-width, initial-scale=1.0\">\n    <title>"),
       Chars("</title>\n    <style>\n        body { font-family: Arial, sans-serif; line-height: 1.6; margin: 40px; }\n        .header { border-bottom: 2px solid #333; padding-bottom: 10px; margin-bottom: 20px; }\n        .content { white-space: pre-wrap; }\n    </style>\n</head>\n<body>\n    <div class=\"header\">\n        <h1>Converted Document: "),
       Chars("</h1>\n        <p>Original size: "),
       Chars(" bytes | Converted on: "),
       Chars("</p>\n    </div>\n    <div class=\"content\">"),
       Chars("</div>\n</body>\n</html>") >>

HtmlMeta ==
    << Chars("<!DOCTYPE html>\n<html lang=\"en\">\n<head>\n    <meta charset=\"UTF-8\">\n    <meta name=\"viewport\" content=\"width=device-width, initial-scale=1.0\">\n    <title>"),
       Chars("</title>\n    <style>\n        body { font-family: Arial, sans-serif; line-height: 1.6; margin: 40px; }\n        .info { background: #f4f4f4; padding: 20px; border-radius: 5px; }\n    </style>\n</head>\n<body>\n    <div class=\"info\">\n        <h1>Document Conversion</h1>\n        <p><strong>Original file:</strong> "),
       Chars("</p>\n        <p><strong>File size:</strong> "),
       Chars(" bytes</p>\n        <p><strong>File type:</strong> "),
       Chars("</p>\n        <p><strong>Converted on:</strong> "),
       Chars("</p>\n        <p><em>Binary content preserved in original format - HTML conversion shows metadata only.</em></p>\n    </div>\n</body>\n</html>") >>

HtmlError ==
    << Chars("<!DOCTYPE html>\n<html lang=\"en\">\n<head>\n    <meta charset=\"UTF-8\">\n    <title>Conversion Error</title>\n</head>\n<body>\n    <h1>Conversion Error</h1>\n    <p>Could not convert "),
       Chars(" to HTML format.</p>\n</body>\n</html>") >>

PdfText ==
    << Chars("%PDF-1.4\n1 0 obj\n<< /Type /Catalog /Pages 2 0 R >>\nendobj\n2 0 obj\n<< /Type /Pages /Kids [3 0 R] /Count 1 >>\nendobj\n3 0 obj\n<< /Type /Page /Parent 2 0 R /MediaBox [0 0 612 792] /Contents 4 0 R /Resources << /Font << /F1 5 0 R >> >> >>\nendobj\n4 0 obj\n<< /Length "),
       Chars(" >>\nstream\nBT\n/F1 12 Tf\n50 750 Td\n("),
       Chars(") Tj\nET\nendstream\nendobj\n5 0 obj\n<< /Type /Font /Subtype /Type1 /BaseFont /Helvetica >>\nendobj\nxref\n0 6\n0000000000 65535 f \n0000000009 00000 n \n0000000058 00000 n \n0000000115 00000 n \n0000000258 00000 n \n0000000"),
       Chars(" 00000 n \ntrailer\n<< /Size 6 /Root 1 0 R >>\nstartxref\n"),
       Chars("\n%%EOF") >>

ExtHtml == Chars("html")

EscLt == Chars("&lt;")

EscGt == Chars("&gt;")

LocalePrefix == Chars("11/3/2026, 4:00:0")

LocaleSuffix == Chars(" PM")

\* new Date().toLocaleString() when the clock stands at t milliseconds
\* (in the first ten seconds after 4 PM).
ToLocaleString(t) == LocalePrefix \o NumToString((t \div 1000) % 10) \o LocaleSuffix

\* A variant of the txt branch that stamps the text with the time of the call.
ConvertToTxtStamped(originalFile) ==
    Fulfilled(Blob(Utf8Encode(Utf8Decode(originalFile.bytes) \o ToLocaleString(clock)),
                   TypeTextPlain), "txt-text")

\* A variant of the txt branch that cleans control characters whatever the source.
ConvertToTxtCleaning(originalFile) ==
    IF IsTextTyped(originalFile) /\ ~ReadOk(originalFile, 2)
    THEN Fulfilled(Blob(Utf8Encode(TxtFallback[1] \o originalFile.name \o TxtFallback[2]
                                   \o NumToString(Size(originalFile)) \o TxtFallback[3]
                                   \o originalFile.type \o TxtFallback[4]), TypeTextPlain), "txt-error")
    ELSE Fulfilled(Blob(Utf8Encode(CleanControls(Utf8Decode(originalFile.bytes))), TypeTextPlain),
                   "txt-binary")

\* The txt branch: the text of a text-typed source; the buffer of any other
\* source decoded as UTF-8 (never fatal) with control characters blanked; the
\* fallback summary when text() rejects.
ConvertToTxt(originalFile) ==
    IF IsTextTyped(originalFile)
    THEN IF ReadOk(originalFile, 2)
         THEN Fulfilled(Blob(Utf8Encode(Utf8Decode(originalFile.bytes)), TypeTextPlain), "txt-text")
         ELSE Fulfilled(Blob(Utf8Encode(TxtFallback[1] \o originalFile.name \o TxtFallback[2]
                                        \o NumToString(Size(originalFile)) \o TxtFallback[3]
                                        \o originalFile.type \o TxtFallback[4]), TypeTextPlain),
                        "txt-error")
    ELSE Fulfilled(Blob(Utf8Encode(CleanControls(Utf8Decode(originalFile.bytes))), TypeTextPlain),
                   "txt-binary")

\* The html branch: the escaped text or the metadata of the source in the
\* fixed template, or the error page when text() rejects; now is
\* new Date().toLocaleString().
ConvertToHtml(originalFile, filename, now) ==
    LET htmlContent ==
            IF IsTextTyped(originalFile)
            THEN IF ReadOk(originalFile, 2)
                 THEN LET text == Utf8Decode(originalFile.bytes)
                      IN HtmlText[1] \o filename \o HtmlText[2] \o originalFile.name \o HtmlText[3]
                         \o NumToString(Size(originalFile)) \o HtmlText[4] \o now \o HtmlText[5]
                         \o ReplaceAllChar(ReplaceAllChar(text, 60, EscLt), 62, EscGt)
                         \o HtmlText[6]
                 ELSE HtmlError[1] \o originalFile.name \o HtmlError[2]
            ELSE HtmlMeta[1] \o filename \o HtmlMeta[2] \o originalFile.name \o HtmlMeta[3]
                 \o NumToString(Size(originalFile)) \o HtmlMeta[4] \o originalFile.type
                 \o HtmlMeta[5] \o now \o HtmlMeta[6]
    IN Fulfilled(Blob(Utf8Encode(htmlContent), TypeTextHtml),
                 IF ~IsTextTyped(originalFile) THEN "html-meta"
                 ELSE IF ReadOk(originalFile, 2) THEN "html-text" ELSE "html-error")

\* (400 + text.length).toString().padStart(3, '0')
PadStart3(digits) ==
    IF Len(digits) >= 3 THEN digits
    ELSE [i \in 1..(3 - Len(digits)) |-> 48] \o digits

\* The pdf branch for a text-typed source whose text() resolves.
ConvertTextToPdf(originalFile) ==
    LET text == Utf8Decode(originalFile.bytes)
        pdfContent ==
            PdfText[1] \o NumToString(Len(text) + 100) \o PdfText[2]
            \o ReplaceAllChar(ReplaceAllChar(text, 10, PdfLineBreak), 13, <<>>)
            \o PdfText[3] \o PadStart3(NumToString(400 + Len(text))) \o PdfText[4]
            \o NumToString(450 + Len(text)) \o PdfText[5]
    IN Fulfilled(Blob(Utf8Encode(pdfContent), TypePdf), "pdf-text")

\* The last return: the original bytes under the target's MIME type.
PassThrough(originalFile, targetMimeType) ==
    Fulfilled(Blob(originalFile.bytes, targetMimeType), "pass-through")

convertDocumentFormat(originalFile, targetFormat, filename, now) ==
    LET target == ToLowerCase(targetFormat)
        targetMimeType == TargetMimeType(target)
    IN IF ~ReadOk(originalFile, 1) THEN Rejected(ReadError, "")
       ELSE IF target = ExtTxt THEN ConvertToTxt(originalFile)
       ELSE IF target = ExtHtml THEN ConvertToHtml(originalFile, filename, now)
       ELSE IF target = ExtPdf /\ IsTextTyped(originalFile) /\ ReadOk(originalFile, 2)
       THEN ConvertTextToPdf(originalFile)
       ELSE PassThrough(originalFile, targetMimeType)

(***************************************************************************)
(* Calls of createMergedDocument                                           *)
(***************************************************************************)

\* Read behaviours of a file: <<first read succeeds, later reads succeed>>.
ReadsOk == <<TRUE, TRUE>>

ReadsNever == <<FALSE, FALSE>>

ReadsRetry == <<FALSE, TRUE>>

ReadsOnce == <<TRUE, FALSE>>

File(name, type, bytes, reads) ==
    [name |-> Chars(name), type |-> Chars(type), bytes |-> bytes, reads |-> reads]

TypeDocx == "application/vnd.openxmlformats-officedocument.wordprocessingml.document"

\* Contents of text files: ASCII, several lines, a byte that is not UTF-8,
\* and a byte order mark before the text.
TextSamples == {<<65>>, <<66, 10, 67>>, <<255>>, Utf8Bom \o <<65>>}

\* The files a merge is called with: text files (by type or by extension),
\* Office and other binary files, PDF files; readable and not.
MergeFiles ==
    {File("a.txt", "text/plain", b, ReadsOk) : b \in TextSamples}
    \cup {File("B.TXT", "", <<66>>, ReadsOk),
          File("c.csv", "", <<49, 44, 50>>, ReadsOk),
          File("d.dat", "text/plain", <<68>>, ReadsOk),
          File("a.txt", "text/plain", <<65>>, ReadsNever),
          File("e.docx", TypeDocx, <<80, 75>>, ReadsOk),
          File("e.docx", TypeDocx, <<80, 75, 3>>, ReadsNever),
          File("g.bin", "", <<0, 255>>, ReadsOk),
          File("g.bin", "", <<>>, ReadsOk),
          File("p.pdf", "application/pdf", <<40, 72, 105, 41>>, ReadsOk),
          File("Q.PDF", "application/pdf", <<37, 80, 40, 41>>, ReadsOk),
          File("p.pdf", "application/pdf", <<37, 80>>, ReadsRetry),
          File("p.pdf", "application/pdf", <<37>>, ReadsNever)}

MaxFiles == 3

MergedName == Chars("merged")

MergeCall(fs) == [op |-> "merge", files |-> fs, outputFilename |-> MergedName]

InitMerge ==
    \E k \in 0..MaxFiles : \E fs \in [1..k -> MergeFiles] :
        /\ call = MergeCall(fs)
        /\ result = Pending
        /\ EnvIdle

\* The call settles: the promise createMergedDocument returned is fulfilled or rejected.
MergeSettles ==
    /\ call.op = "merge"
    /\ result.status = "pending"
    /\ result' = createMergedDocument(call.files, call.outputFilename)
    /\ UNCHANGED <<call, envVars>>

NextMerge == MergeSettles

SpecMerge == InitMerge /\ [][NextMerge]_vars

(***************************************************************************)
(* Properties of createMergedDocument                                      *)
(***************************************************************************)

MergeSettled == call.op = "merge" /\ result.status # "pending"

\* C1: a merge of an empty file list is rejected with the error 'No files to
\* merge' and returns no blob; a merge of a non-empty list is never rejected
\* with that error.
C1_EmptyMergeRejected ==
    MergeSettled =>
        /\ Len(call.files) = 0 =>
              /\ result.status = "rejected"
              /\ result.error = "No files to merge"
              /\ result.blob.none
        /\ Len(call.files) > 0 =>
              ~(result.status = "rejected" /\ result.error = "No files to merge")

C1_Witness == MergeSettled /\ Len(call.files) = 0 /\ result.status = "rejected"

\* The sum of the sizes of the first n files.
RECURSIVE SumSizes(_, _)
SumSizes(files, n) == IF n = 0 THEN 0 ELSE SumSizes(files, n - 1) + Size(files[n])

AllTxt(files) == \A i \in 1..Len(files) : ToLowerCase(LastDotSegment(files[i].name)) = ExtTxt

MarkerOpen == Chars("=== Document ")

MarkerClose == Chars(" ===")

\* The break marker of the document at position i, as the bytes of the output.
BreakMarker(files, i) ==
    Utf8Encode(MarkerOpen \o NumToString(i) \o <<58, 32>> \o files[i].name \o MarkerClose)

\* The text of the file at position i, as the bytes of the output.
TextBytes(files, i) == Utf8Encode(Utf8Decode(files[i].bytes))

\* From index from on, out holds marker i, then text i, then the same for
\* the files after i.
RECURSIVE MarkedTextsInOrder(_, _, _, _)
MarkedTextsInOrder(out, files, i, from) ==
    \/ i > Len(files)
    \/ LET m == IndexOfFrom(out, BreakMarker(files, i), from)
           t == IndexOfFrom(out, TextBytes(files, i), m + Len(BreakMarker(files, i)))
       IN /\ m # 0
          /\ t # 0
          /\ MarkedTextsInOrder(out, files, i + 1, t + Len(TextBytes(files, i)))

TextMergeHoldsEveryText ==
    /\ result.status = "fulfilled"
    /\ Len(result.blob.bytes) >= SumSizes(call.files, Len(call.files))
    /\ MarkedTextsInOrder(result.blob.bytes, call.files, 1, 1)

\* C2 as stated: for every non-empty sequence of .txt inputs the merged text
\* is at least as long as the inputs together and holds every input's text,
\* in input order, each after its own break marker.
C2_EveryTxtInputMerged ==
    (MergeSettled /\ Len(call.files) > 0 /\ AllTxt(call.files)) => TextMergeHoldsEveryText

\* C2, amended: the same for every non-empty sequence of .txt inputs whose
\* contents can all be read.
C2_ReadableTxtInputsMerged ==
    (/\ MergeSettled
     /\ Len(call.files) > 0
     /\ AllTxt(call.files)
     /\ \A i \in 1..Len(call.files) : call.files[i].reads[1])
    => TextMergeHoldsEveryText

C2_Witness ==
    /\ MergeSettled
    /\ Len(call.files) = 3
    /\ AllTxt(call.files)
    /\ \A i \in 1..3 : call.files[i].reads[1]
    /\ call.files[1].bytes = <<65>>
    /\ call.files[2].bytes = <<66>>
    /\ call.files[3].bytes = Utf8Bom \o <<65>>
    /\ result.status = "fulfilled"

\* Whether the first file sends the merge down the Office or the raw path.
OnBinaryPath(files) ==
    LET ext == ToLowerCase(LastDotSegment(files[1].name))
    IN /\ ext # ExtPdf
       /\ ~StartsWith(files[1].type, TextSlash)
       /\ ext \notin {ExtTxt, ExtCsv}

AllPdf(files) == \A i \in 1..Len(files) : ToLowerCase(LastDotSegment(files[i].name)) = ExtPdf

\* C12: a merge takes the PDF path (the synthetic PDF or its fallback) only
\* if every input declares the .pdf extension.
C12_PdfPathOnlyIfAllPdf ==
    (MergeSettled /\ Len(call.files) > 0 /\ result.path \in {"pdf", "pdf-fallback"})
    => AllPdf(call.files)

\* C13: a merge of a non-empty list is never rejected: whatever read fails,
\* the call is fulfilled with a blob.
C13_MergeNeverRejects ==
    (MergeSettled /\ Len(call.files) > 0)
    => (result.status = "fulfilled" /\ ~result.blob.none)

(***************************************************************************)
(* Calls of createSplitDocuments                                           *)
(***************************************************************************)

MaxSplitLen == 7

MaxPages == 4

\* Contents of the file to split: every sequence of up to MaxSplitLen bytes
\* 'A' and '\n', and a text of twelve lines.
TwelveLines == [i \in 1..23 |-> IF i % 2 = 1 THEN 65 ELSE 10]

SplitAlphabet == {65, 10}

\* The page numbers 1..n in order.
FirstPages(n) == [i \in 1..n |-> i]

\* The page numbers requested when names matter.
PageValues == {1, 2, 12}

PagePattern == Chars("page_{n}")

NamingPatterns == {PagePattern, Chars("{n}-{n}"), Chars("part"), Chars("p{n}1")}

\* Files that differ in name and type: a text file, PDF files, a text type
\* under another extension, a name without extension, a name ending in a dot.
TxtFile(bytes, reads) == [name |-> Chars("a.txt"), type |-> TypeTextPlain, bytes |-> bytes, reads |-> reads]

PdfFile(bytes, reads) == [name |-> Chars("b.pdf"), type |-> TypePdf, bytes |-> bytes, reads |-> reads]

NamedFiles ==
    {File("a.txt", "text/plain", <<65, 10, 66, 10, 67>>, ReadsOk),
     File("b.pdf", "application/pdf", <<37, 80, 68, 70>>, ReadsOk),
     File("REPORT.PDF", "application/pdf", <<37, 80, 68, 70>>, ReadsOk),
     File("c.md", "text/markdown", <<35, 10, 65>>, ReadsOk),
     File("notes", "", <<65, 66>>, ReadsOk),
     File("x.", "", <<65>>, ReadsOk)}

SplitCall(file, pages, pattern) ==
    [op |-> "split", originalFile |-> file, pageNumbers |-> pages, namingPattern |-> pattern]

InitSplit ==
    /\ result = Pending
    /\ EnvIdle
    /\ \/ \E len \in 0..MaxSplitLen : \E bytes \in [1..len -> SplitAlphabet] :
          \E n \in 0..MaxPages : \E reads \in {ReadsOk, ReadsNever, ReadsOnce} :
          \E file \in {TxtFile(bytes, reads), PdfFile(bytes, reads)} :
             call = SplitCall(file, FirstPages(n), PagePattern)
       \/ \E n \in 0..MaxPages : \E file \in {TxtFile(TwelveLines, ReadsOk), PdfFile(TwelveLines, ReadsOk)} :
             call = SplitCall(file, FirstPages(n), PagePattern)
       \/ \E file \in NamedFiles : \E n \in 0..MaxPages : \E pages \in [1..n -> PageValues] :
          \E pattern \in NamingPatterns :
             call = SplitCall(file, pages, pattern)

\* The call settles: the promise createSplitDocuments returned is fulfilled or rejected.
SplitSettles ==
    /\ call.op = "split"
    /\ result.status = "pending"
    /\ result' = createSplitDocuments(call.originalFile, call.pageNumbers, call.namingPattern)
    /\ UNCHANGED <<call, envVars>>

NextSplit == SplitSettles

SpecSplit == InitSplit /\ [][NextSplit]_vars

(***************************************************************************)
(* Properties of createSplitDocuments                                      *)
(***************************************************************************)

SplitFulfilled == call.op = "split" /\ result.status = "fulfilled"

\* Where the placeholder {n} first stands in the naming pattern, 0 when it has none.
PlaceholderAt(pattern) == IndexOfFrom(pattern, Placeholder, 1)

\* C4: a split returns as many artifacts as page numbers were requested, the
\* i-th one for the i-th page number (its name carries that number where the
\* pattern has its placeholder), whatever the size of the source, on the
\* text path and on the binary path.
C4_OneArtifactPerPage ==
    SplitFulfilled =>
        /\ Len(result.artifacts) = Len(call.pageNumbers)
        /\ \A i \in 1..Len(call.pageNumbers) :
              LET at == PlaceholderAt(call.namingPattern)
              IN at # 0 => OccursAt(result.artifacts[i].name,
                                    NumToString(call.pageNumbers[i]), at)

\* A text of two lines split into four pages.
C4_Witness ==
    /\ SplitFulfilled
    /\ result.path = "text"
    /\ call.originalFile.bytes = <<65, 10, 65>>
    /\ Len(call.pageNumbers) = 4
    /\ Len(result.artifacts) = 4

BinarySplit == SplitFulfilled /\ result.path = "binary" /\ call.pageNumbers # <<>>

\* The byte size of the i-th chunk.
ChunkSize(i) == Len(result.artifacts[i].content.bytes)

\* C5: the chunks of a binary split, concatenated in output order, are the
\* source buffer.
C5_BinarySplitRoundTrip ==
    BinarySplit =>
        Flatten([i \in 1..Len(result.artifacts) |-> result.artifacts[i].content.bytes])
            = call.originalFile.bytes

\* Five bytes split into two chunks.
C5_Witness ==
    /\ BinarySplit
    /\ Len(call.originalFile.bytes) = 5
    /\ Len(call.pageNumbers) = 2
    /\ 10 \in {call.originalFile.bytes[i] : i \in 1..5}
    /\ 65 \in {call.originalFile.bytes[i] : i \in 1..5}

\* C6: in a binary split every chunk but the last has the same size; only
\* the last one may differ.
C6_EqualChunksButLast ==
    BinarySplit =>
        \A i, j \in 1..(Len(result.artifacts) - 1) : ChunkSize(i) = ChunkSize(j)

\* C23: a binary split of a buffer that is not empty, for a page list that
\* is not empty, gives no empty chunk: every chunk holds at least one byte.
C23_NoEmptyChunk ==
    (BinarySplit /\ call.originalFile.bytes # <<>>) =>
        \A i \in 1..Len(result.artifacts) : ChunkSize(i) >= 1

TextSplit == SplitFulfilled /\ result.path = "text" /\ call.pageNumbers # <<>>

\* The number of lines in the i-th group.
GroupSize(i) == Len(result.artifacts[i].lines)

\* C7: in a text split the lines go to the groups in order, every group but
\* the last has the same number of lines, and twelve lines split into three
\* pages give four lines each.
C7_EqualLineGroupsButLast ==
    TextSplit =>
        /\ Flatten([i \in 1..Len(result.artifacts) |-> result.artifacts[i].lines])
              = SplitLines(Utf8Decode(call.originalFile.bytes))
        /\ \A i, j \in 1..(Len(result.artifacts) - 1) : GroupSize(i) = GroupSize(j)
        /\ (call.originalFile.bytes = TwelveLines /\ Len(call.pageNumbers) = 3)
              => \A i \in 1..3 : GroupSize(i) = 4

\* Whether the file's name has an extension: a dot with something after it.
HasExtension(f) == LastDotSegment(f.name) # f.name /\ LastDotSegment(f.name) # <<>>

PairwiseDistinct(seq) == \A i, j \in 1..Len(seq) : i # j => seq[i] # seq[j]

MaxConvertLen == 2

\* Bytes of the source: 'A', a line feed, the control character BEL, '<',
\* and 0xFF, which no UTF-8 sequence holds.
ConvertAlphabet == {65, 10, 7, 60, 255}

\* The target formats asked for: the keys of the table in either case,
\* formats it lacks, and names every object inherits.
TargetFormats ==
    {Chars(t) : t \in {"txt", "TXT", "html", "Html", "pdf", "PDF", "docx", "doc", "rtf",
                       "pptx", "ppt", "md", "", "constructor", "__proto__"}}

\* The values of new Date().toLocaleString() at the time of the call.
Clock == {Chars("11/3/2026, 4:00:00 PM"), Chars("11/3/2026, 4:00:01 PM")}

OutName == Chars("out")

\* A text-typed file, a PDF file and a file of unknown type.
SourceFiles(bytes, reads) ==
    {TxtFile(bytes, reads), PdfFile(bytes, reads),
     [name |-> Chars("notes"), type |-> <<>>, bytes |-> bytes, reads |-> reads]}

ConvertCall(file, target, now) ==
    [op |-> "convert", originalFile |-> file, targetFormat |-> target, filename |-> OutName,
     now |-> now]

InitConvert ==
    /\ result = Pending
    /\ EnvIdle
    /\ \E target \in TargetFormats :
          \/ \E len \in 0..MaxConvertLen : \E body \in [1..len -> ConvertAlphabet] :
             \E bytes \in {body, Utf8Bom \o body, Utf8Bom \o Utf8Bom \o body} : \E file \in SourceFiles(bytes, ReadsOk) :
             \E now \in {CHOOSE t \in Clock : TRUE} :
                call = ConvertCall(file, target, now)
          \/ \E reads \in {ReadsOk, ReadsNever, ReadsOnce, ReadsRetry} :
             \E file \in SourceFiles(<<65, 10, 66>>, reads) : \E now \in Clock :
                call = ConvertCall(file, target, now)

\* The call settles: the promise convertDocumentFormat returned is fulfilled or rejected.
ConvertSettles ==
    /\ call.op = "convert"
    /\ result.status = "pending"
    /\ result' = convertDocumentFormat(call.originalFile, call.targetFormat, call.filename,
                                       call.now)
    /\ UNCHANGED <<call, envVars>>

NextConvert == ConvertSettles

SpecConvert == InitConvert /\ [][NextConvert]_vars

(***************************************************************************)
(* Properties of convertDocumentFormat                                     *)
(***************************************************************************)

ConvertFulfilled == call.op = "convert" /\ result.status = "fulfilled"

\* The MIME type the table assigns to a key, application/octet-stream for a
\* key that is none of its eight.
TableMimeType(key) ==
    IF \E e \in MimeTable : e[1] = key
    THEN (CHOOSE e \in MimeTable : e[1] = key)[2]
    ELSE TypeOctetStream

\* C9: the blob of a conversion bears the MIME type the table gives the
\* target format in lower case, application/octet-stream when the table has
\* no such key, on every path.
C9_MimeFromTable ==
    ConvertFulfilled => result.blob.type = TableMimeType(ToLowerCase(call.targetFormat))

TextToTxt ==
    /\ call.op = "convert"
    /\ result.status # "pending"
    /\ StartsWith(call.originalFile.type, TextSlash)
    /\ ToLowerCase(call.targetFormat) = ExtTxt

\* Whether the bytes begin with two byte order marks: the decoder strips the
\* first, and the text then begins with U+FEFF.
DoubleBom(b) == Len(b) >= 6 /\ SubSeq(b, 1, 6) = Utf8Bom \o Utf8Bom

\* C10 as stated: converting a text-typed source to txt returns a blob whose
\* text is the text of the source exactly, labelled text/plain.
C10_TextToTxtIdentity ==
    (TextToTxt /\ result.status = "fulfilled") =>
        /\ Utf8Decode(result.blob.bytes) = Utf8Decode(call.originalFile.bytes)
        /\ result.blob.type = TypeTextPlain

\* C10, amended: converting to txt a text-typed source whose text can be
\* read and does not begin with U+FEFF returns a blob whose text is the text
\* of the source exactly, labelled text/plain.
C10_ReadableTextToTxtIdentity ==
    (/\ TextToTxt
     /\ call.originalFile.reads = <<TRUE, TRUE>>
     /\ ~DoubleBom(call.originalFile.bytes))
    => /\ result.status = "fulfilled"
       /\ Utf8Decode(result.blob.bytes) = Utf8Decode(call.originalFile.bytes)
       /\ result.blob.type = TypeTextPlain

\* A text holding a control character and a line feed, converted to TXT.
C10_Witness ==
    /\ TextToTxt
    /\ call.originalFile.bytes = <<7, 10>>
    /\ call.originalFile.reads = <<TRUE, TRUE>>
    /\ result.status = "fulfilled"
    /\ Utf8Decode(result.blob.bytes) = <<7, 10>>

\* Whether the call takes none of the txt, html and pdf-from-text branches.
OtherTarget ==
    LET target == ToLowerCase(call.targetFormat)
    IN /\ call.op = "convert"
       /\ target \notin {ExtTxt, ExtHtml}
       /\ ~(target = ExtPdf /\ StartsWith(call.originalFile.type, TextSlash))

\* C11: for every target other than txt, html and pdf from a text-typed
\* source, the blob holds exactly the bytes of the source and bears the MIME
\* type of the target.
C11_OtherTargetsRelabel ==
    (ConvertFulfilled /\ OtherTarget)
    => /\ result.blob.bytes = call.originalFile.bytes
       /\ result.blob.type = TableMimeType(ToLowerCase(call.targetFormat))

\* C14: a conversion is never rejected: whatever read or decoding fails, the
\* call is fulfilled with a blob.
C14_ConvertNeverRejects ==
    (call.op = "convert" /\ result.status # "pending")
    => (result.status = "fulfilled" /\ ~result.blob.none)

(***************************************************************************)
(* Calls repeated over time                                                *)
(***************************************************************************)

MaxClock == 1000

MaxRepeats == 1

\* The function a call names, applied to the call's arguments.
Apply(c) ==
    CASE c.op = "merge" -> createMergedDocument(c.files, c.outputFilename)
      [] c.op = "split" -> createSplitDocuments(c.originalFile, c.pageNumbers, c.namingPattern)
      [] c.op = "convert" -> convertDocumentFormat(c.originalFile, c.targetFormat, c.filename, c.now)

\* The call as it is made when the clock stands at t.
CallAt(c, t) == IF c.op = "convert" THEN [c EXCEPT !.now = ToLocaleString(t)] ELSE c

\* What the caller passes: the call without the time it is made at.
Inputs(c) ==
    IF c.op = "convert" THEN <<c.op, c.originalFile, c.targetFormat, c.filename>> ELSE <<c>>

RepeatFiles ==
    {File("a.txt", "text/plain", <<65, 10, 60>>, ReadsOk),
     File("a.txt", "text/plain", <<65>>, ReadsOnce),
     File("p.pdf", "application/pdf", <<40, 72, 105, 41>>, ReadsOk),
     File("e.docx", TypeDocx, <<80, 75>>, ReadsOk),
     File("g.bin", "", <<0, 255>>, ReadsNever)}

RepeatTargets == {ExtTxt, ExtHtml, ExtPdf, Chars("docx")}

RepeatCalls ==
    {MergeCall(<<f, g>>) : f \in RepeatFiles, g \in RepeatFiles}
    \cup {SplitCall(f, FirstPages(n), PagePattern) : f \in RepeatFiles, n \in 1..2}
    \cup {ConvertCall(f, t, ToLocaleString(0)) : f \in RepeatFiles, t \in RepeatTargets}

InitRepeat ==
    /\ call \in RepeatCalls
    /\ result = Pending
    /\ EnvIdle

\* The call under way settles.
RepeatSettles ==
    /\ result.status = "pending"
    /\ result' = Apply(call)
    /\ UNCHANGED <<call, envVars>>

\* Time passes.
ClockTicks ==
    /\ clock < MaxClock
    /\ clock' = clock + 1000
    /\ UNCHANGED <<call, result, history, fileReads, browser, timers, screen>>

\* The caller makes the same call again, with the same arguments.
CallsAgain ==
    /\ result.status # "pending"
    /\ Len(history) < MaxRepeats
    /\ history' = Append(history, [call |-> call, result |-> result])
    /\ call' = CallAt(call, clock)
    /\ result' = Pending
    /\ UNCHANGED <<clock, fileReads, browser, timers, screen>>

NextRepeat == RepeatSettles \/ ClockTicks \/ CallsAgain

SpecRepeat == InitRepeat /\ [][NextRepeat]_vars

ToHtml(c) == c.op = "convert" /\ ToLowerCase(c.targetFormat) = ExtHtml

Event(ev, i, round) == [ev |-> ev, file |-> i, round |-> round]

\* file.arrayBuffer() or file.text() is called: the read is under way.
Issue(fr, round, i) ==
    [fr EXCEPT !.inFlight = @ \cup {<<round, i>>}, !.log = Append(@, Event("start", i, round))]

\* A variant that starts the reads of every path the way the PDF path does.
StartReadsAllAtOnce(files) ==
    [pc |-> "pdf",
     inFlight |-> {<<1, i>> : i \in 1..Len(files)},
     log |-> [i \in 1..Len(files) |-> Event("start", i, 1)]]

\* The reads under way when the function first suspends: files.map runs
\* every callback up to its await, so Promise.all has all files being read;
\* the loops of the other paths await their first read.
StartReads(files) ==
    IF MergePolicy(files) = "pdf"
    THEN [pc |-> "pdf",
          inFlight |-> {<<1, i>> : i \in 1..Len(files)},
          log |-> [i \in 1..Len(files) |-> Event("start", i, 1)]]
    ELSE Issue([NoReads EXCEPT !.pc = "loop"], 1, 1)

\* Files that can and cannot be read, of every policy.
ReadFiles ==
    {File("a.txt", "text/plain", <<65>>, ReadsOk),
     File("a.txt", "text/plain", <<66>>, ReadsNever),
     File("e.docx", TypeDocx, <<80, 75>>, ReadsOk),
     File("g.bin", "", <<0, 255>>, ReadsNever),
     File("p.pdf", "application/pdf", <<40, 72, 105, 41>>, ReadsOk),
     File("p.pdf", "application/pdf", <<37, 80>>, ReadsRetry),
     File("p.pdf", "application/pdf", <<37>>, ReadsNever)}

InitMergeReads ==
    \E k \in 0..MaxFiles : \E fs \in [1..k -> ReadFiles] :
        /\ call = MergeCall(fs)
        /\ result = Pending
        /\ EnvIdle

\* createMergedDocument runs up to its first await, or throws on an empty list.
MergeStarts ==
    /\ call.op = "merge"
    /\ result.status = "pending"
    /\ fileReads.pc = "idle"
    /\ IF Len(call.files) = 0
       THEN /\ result' = createMergedDocument(call.files, call.outputFilename)
            /\ fileReads' = [fileReads EXCEPT !.pc = "done"]
       ELSE /\ fileReads' = StartReads(call.files)
            /\ UNCHANGED result
    /\ UNCHANGED <<call, history, clock, browser, timers, screen>>

\* A read completes or fails, and the function runs on to its next await or
\* to its end.
ReadCompletes ==
    /\ call.op = "merge"
    /\ \E r \in fileReads.inFlight :
          LET round == r[1]
              i == r[2]
              n == Len(call.files)
              ok == ReadOk(call.files[i], round)
              done == [fileReads EXCEPT !.inFlight = @ \ {r},
                                        !.log = Append(@, Event(IF ok THEN "end" ELSE "fail", i, round))]
              Waits == fileReads' = done /\ UNCHANGED result
              Settles == /\ result' = createMergedDocument(call.files, call.outputFilename)
                         /\ fileReads' = [done EXCEPT !.pc = "done"]
              Reads(k, j) == fileReads' = Issue(done, k, j) /\ UNCHANGED result
          IN CASE fileReads.pc = "loop" ->
                    IF ~ok /\ MergePolicy(call.files) # "text" THEN Settles
                    ELSE IF i < n THEN Reads(1, i + 1)
                    ELSE Settles
               [] fileReads.pc = "pdf" ->
                    IF ~ok THEN fileReads' = Issue([done EXCEPT !.pc = "fallback"], 2, 1)
                                /\ UNCHANGED result
                    ELSE IF done.inFlight = {} THEN Settles
                    ELSE Waits
               [] fileReads.pc = "fallback" ->
                    IF round = 1 THEN Waits
                    ELSE IF ~ok THEN Settles
                    ELSE IF i < n THEN Reads(2, i + 1)
                    ELSE Settles
               [] fileReads.pc = "done" -> Waits
    /\ UNCHANGED <<call, history, clock, browser, timers, screen>>

NextMergeReads == MergeStarts \/ ReadCompletes

SpecMergeReads == InitMergeReads /\ [][NextMergeReads]_vars

\* Whether the read that log[p] starts comes after the end of the read of
\* the file before it.
AfterPrevious(p) ==
    LET log == fileReads.log
    IN (log[p].ev = "start" /\ log[p].file > 1)
       => \E q \in 1..(p - 1) : /\ log[q].file = log[p].file - 1
                                /\ log[q].round = log[p].round
                                /\ log[q].ev \in {"end", "fail"}

\* Whether the reads of a round are started in array order.
StartedInArrayOrder ==
    LET log == fileReads.log
    IN \A p, q \in 1..Len(log) :
          (p < q /\ log[p].ev = "start" /\ log[q].ev = "start" /\ log[p].round = log[q].round)
          => log[p].file < log[q].file

\* C16 as stated: on every merge path at most one read is under way, and the
\* read of a file is started only after the read of the file before it has
\* completed.
C16_ReadsOneAtATime ==
    call.op = "merge" =>
        /\ Cardinality(fileReads.inFlight) <= 1
        /\ \A p \in 1..Len(fileReads.log) : AfterPrevious(p)
        /\ StartedInArrayOrder

\* C16, amended: on the text, Office and raw paths at most one read is under
\* way and each read is started after the one before it has completed; on
\* the PDF path all reads are started together, in array order, and only
\* the reads of the fallback loop follow one another.
C16_ReadsOneAtATimeButPdf ==
    call.op = "merge" =>
        /\ (Len(call.files) > 0 /\ MergePolicy(call.files) # "pdf")
              => /\ Cardinality(fileReads.inFlight) <= 1
                 /\ \A p \in 1..Len(fileReads.log) : AfterPrevious(p)
        /\ \A p \in 1..Len(fileReads.log) : fileReads.log[p].round = 2 => AfterPrevious(p)
        /\ StartedInArrayOrder

\* Three Office files merged: three reads, each after the other.
C16_Witness ==
    /\ call.op = "merge"
    /\ Len(call.files) = 3
    /\ MergePolicy(call.files) = "office"
    /\ result.status = "fulfilled"
    /\ Len(fileReads.log) = 6

(***************************************************************************)
(* downloadFile and downloadZip                                            *)
(***************************************************************************)

\* setTimeout(() => URL.revokeObjectURL(url), 100)
RevokeDelay == 100

\* setTimeout(..., index * 500)
ZipStagger == 500

MaxDownloads == 1

MaxZipFiles == 2

\* What downloadFile did with an object URL: "create", "attach", "click",
\* "detach", "revoke"; src is 0 for a download the user asked for and i for
\* the download of the i-th file of a batch; at is the time.
DownloadEvent(ev, url, filename, src, at) ==
    [ev |-> ev, url |-> url, filename |-> filename, src |-> src, at |-> at]

Timer(due, act, arg) == [due |-> due, act |-> act, arg |-> arg]

\* A variant that releases the object URL right after creating it.
downloadFileRevokingAtOnce(page, blob, filename, src) ==
    LET url == Len(page.browser.urls) + 1
        E(ev) == DownloadEvent(ev, url, filename, src, clock)
    IN [browser |-> [urls |-> Append(page.browser.urls, [blob |-> blob, state |-> "revoked"]),
                     anchors |-> page.browser.anchors,
                     log |-> page.browser.log
                             \o <<E("create"), E("revoke"), E("attach"), E("click"), E("detach")>>],
        timers |-> page.timers]

\* downloadFile(blob, filename, mimeType) on a page = [browser, timers]:
\* the object URL is created, the anchor is attached, clicked and detached,
\* and the release of the URL is set for RevokeDelay later.
downloadFile(page, blob, filename, src) ==
    LET url == Len(page.browser.urls) + 1
        E(ev) == DownloadEvent(ev, url, filename, src, clock)
    IN [browser |-> [urls |-> Append(page.browser.urls, [blob |-> blob, state |-> "live"]),
                     anchors |-> (page.browser.anchors \cup {url}) \ {url},
                     log |-> page.browser.log \o <<E("create"), E("attach"), E("click"), E("detach")>>],
        timers |-> Append(page.timers, Timer(clock + RevokeDelay, "revoke", url))]

\* A variant that sets every download of the batch for the same time.
ZipTimersUnstaggered(files) ==
    [i \in 1..Len(files) |-> Timer(clock, "download", i)]

\* files.forEach((file, index) => setTimeout(..., index * 500)): the timers
\* downloadZip sets, the i-th (index i - 1) for the i-th file.
ZipTimers(files) ==
    [i \in 1..Len(files) |-> Timer(clock + (i - 1) * ZipStagger, "download", i)]

TextArtifact == Artifact(Chars("page_1.txt"), Blob(<<65>>, TypeTextPlain), <<>>)

PdfArtifact == Artifact(Chars("page_2.pdf"), Blob(<<37, 80>>, TypePdf), <<>>)

\* The merged document the user downloads.
MergedArtifact == Artifact(Chars("merged-document.pdf"), Blob(<<37, 80, 68, 70>>, TypePdf), <<>>)

\* The list of n artifacts a batch is asked for.
ZipFiles(n) == [i \in 1..n |-> IF i % 2 = 1 THEN TextArtifact ELSE PdfArtifact]

ZipName == Chars("split-files")

NoCall == [op |-> "none"]

InitDownload ==
    /\ call = NoCall
    /\ result = Pending
    /\ EnvIdle

\* A handler calls downloadFile for an artifact.
UserDownloads ==
    /\ Cardinality({p \in 1..Len(browser.log) : browser.log[p].ev = "create" /\ browser.log[p].src = 0})
          < MaxDownloads
    /\ \E a \in {MergedArtifact} :
          LET page == downloadFile([browser |-> browser, timers |-> timers], a.content, a.name, 0)
          IN /\ browser' = page.browser
             /\ timers' = page.timers
    /\ UNCHANGED <<call, result, history, clock, fileReads, screen>>

\* A handler calls downloadZip for a list of artifacts; the promise it
\* returns is fulfilled at once.
ZipRequested ==
    /\ call = NoCall
    /\ \E n \in 0..MaxZipFiles : \E files \in {ZipFiles(n)} :
          /\ call' = [op |-> "downloadZip", files |-> files, zipName |-> ZipName, at |-> clock]
          /\ timers' = timers \o ZipTimers(files)
    /\ result' = FulfilledWith(<<>>, "")
    /\ UNCHANGED <<history, clock, fileReads, browser, screen>>

\* The timers that are due.
Due == {i \in 1..Len(timers) : timers[i].due <= clock}

\* The sequence without its i-th item.
Without(seq, i) == SubSeq(seq, 1, i - 1) \o SubSeq(seq, i + 1, Len(seq))

\* The first timer that is due runs its callback.
TimerFires ==
    /\ screen = NoScreen
    /\ Due # {}
    /\ LET i == CHOOSE j \in Due : \A k \in Due : j <= k
           timer == timers[i]
           rest == Without(timers, i)
       IN IF timer.act = "revoke"
          THEN /\ browser' = [browser EXCEPT
                                 !.urls[timer.arg].state = "revoked",
                                 !.log = Append(@, DownloadEvent("revoke", timer.arg, <<>>, 0, clock))]
               /\ timers' = rest
          ELSE LET file == call.files[timer.arg]
                   page == downloadFile([browser |-> browser, timers |-> rest],
                                        file.content, file.name, timer.arg)
               IN /\ browser' = page.browser
                  /\ timers' = page.timers
    /\ UNCHANGED <<call, result, history, clock, fileReads, screen>>

\* Time passes, by the shortest delay, once every timer that is due has run
\* (and, with no timer set, for one such step only).
TimePasses ==
    /\ screen = NoScreen
    /\ Due = {}
    /\ timers # <<>> \/ clock < RevokeDelay
    /\ clock' = clock + RevokeDelay
    /\ UNCHANGED <<call, result, history, fileReads, browser, timers, screen>>

NextDownload == UserDownloads \/ ZipRequested \/ TimerFires \/ TimePasses

\* The browser runs the callback of a timer that is due, and time goes on.
SpecDownload ==
    InitDownload /\ [][NextDownload]_vars /\ WF_vars(TimerFires) /\ WF_vars(TimePasses)

MaxUrls == MaxDownloads + MaxZipFiles

\* The positions in the log of what was done with the object URL u.
Steps(u, ev) == {p \in 1..Len(browser.log) : browser.log[p].url = u /\ browser.log[p].ev = ev}

Before(ps, qs) == \A p \in ps : \A q \in qs : p < q

\* The steps of downloadFile for the object URL u, in the order they must have.
StepsInOrder(u) ==
    /\ \A ev \in {"create", "attach", "click", "detach"} : Cardinality(Steps(u, ev)) = 1
    /\ Before(Steps(u, "create"), Steps(u, "attach"))
    /\ Before(Steps(u, "attach"), Steps(u, "click"))
    /\ Before(Steps(u, "click"), Steps(u, "detach"))
    /\ Before(Steps(u, "detach"), Steps(u, "revoke"))
    /\ Cardinality(Steps(u, "revoke")) <= 1
    /\ (browser.urls[u].state = "revoked") = (Steps(u, "revoke") # {})

Revoked(u) == u <= Len(browser.urls) /\ browser.urls[u].state = "revoked"

\* C17: for every download the object URL is created, the anchor attached,
\* clicked and detached, and the URL then revoked, in this order; it is
\* revoked at most once, never before the click, no anchor stays attached,
\* and every object URL created is revoked in the end, however many
\* downloads overlap.
C17_DownloadStepsAndRelease ==
    /\ [](/\ \A u \in 1..Len(browser.urls) : StepsInOrder(u)
          /\ browser.anchors = {})
    /\ \A u \in 1..MaxUrls : [](Len(browser.urls) >= u => <>Revoked(u))

\* Two downloads asked for within 100 ms of each other, both released.
C17_Witness ==
    /\ Len(browser.urls) >= 2
    /\ \A u \in 1..Len(browser.urls) : browser.urls[u].state = "revoked"
    /\ \E p, q \in 1..Len(browser.log) :
          /\ browser.log[p].ev = "create" /\ browser.log[p].url = 2
          /\ browser.log[q].ev = "revoke" /\ browser.log[q].url = 1
          /\ p < q

\* The clicks of the batch, as positions in the log.
ZipClicks == {p \in 1..Len(browser.log) : browser.log[p].ev = "click" /\ browser.log[p].src # 0}

\* C18: downloadZip triggers one download for every file of the list, in
\* list order, the i-th (index i - 1) at (i - 1) * 500 ms after the call, no
\* two of them at the same time, none twice, and in the end none is missing.
C18_ZipDownloadsStaggered ==
    /\ [](call.op = "downloadZip" =>
            /\ \A p \in ZipClicks :
                  LET e == browser.log[p]
                  IN /\ e.src \in 1..Len(call.files)
                     /\ e.at = call.at + (e.src - 1) * 500
                     /\ e.filename = call.files[e.src].name
                     /\ browser.urls[e.url].blob = call.files[e.src].content
            /\ \A p, q \in ZipClicks :
                  p < q => /\ browser.log[p].src < browser.log[q].src
                           /\ browser.log[p].at < browser.log[q].at)
    /\ \A i \in 1..MaxZipFiles :
          []((call.op = "downloadZip" /\ i <= Len(call.files))
             => <>(\E p \in ZipClicks : browser.log[p].src = i))

\* A batch of two files, both downloaded, the second half a second after the call.
C18_Witness ==
    /\ call.op = "downloadZip"
    /\ Len(call.files) = 2
    /\ Cardinality(ZipClicks) = 2
    /\ \E p \in ZipClicks : browser.log[p].src = 2 /\ browser.log[p].at = call.at + 500

(***************************************************************************)
(* The merge, split and extract screens                                    *)
(*                                                                         *)
(* screen holds the useState cells of the mounted component and the title  *)
(* of the last toast; call holds the utility call a handler is awaiting,    *)
(* with the promise it returned, and result what the promise settled with; *)
(* timers holds the progress intervals that are set.                       *)
(***************************************************************************)

MaxUploaded == 2

\* String.prototype.trim: white space and line terminators removed at both ends.
Trim(s) ==
    LET WhiteSpace == {9, 10, 11, 12, 13, 32, 160, 5760, 8232, 8233, 8239, 8287, 12288, 65279}
                      \cup (8192..8202)
        kept == {i \in 1..Len(s) : s[i] \notin WhiteSpace}
    IN IF kept = {} THEN <<>>
       ELSE SubSeq(s, CHOOSE i \in kept : \A j \in kept : i <= j,
                      CHOOSE i \in kept : \A j \in kept : i >= j)

\* String.prototype.split on one character: the pieces between its occurrences.
SplitOn(s, c) ==
    LET at == {i \in 1..Len(s) : s[i] = c}
        CutAfter(k) == IF k = 0 THEN 0
                       ELSE CHOOSE i \in at : Cardinality({j \in at : j < i}) = k - 1
        CutBefore(k) == IF k = Cardinality(at) + 1 THEN Len(s) + 1 ELSE CutAfter(k)
    IN [k \in 1..(Cardinality(at) + 1) |-> SubSeq(s, CutAfter(k - 1) + 1, CutBefore(k) - 1)]

\* parseInt without a radix: leading white space, a sign, 0x for base 16,
\* then the longest run of digits; nan when there is no digit.
ParseInt(s) ==
    LET DigitValue(c) == IF c \in 48..57 THEN c - 48
                         ELSE IF c \in 97..122 THEN c - 87
                         ELSE IF c \in 65..90 THEN c - 55 ELSE 36
        Digits(d, radix, sign) ==
            LET stops == {i \in 1..Len(d) : DigitValue(d[i]) >= radix} \cup {Len(d) + 1}
                n == (CHOOSE i \in stops : \A j \in stops : i <= j) - 1
                Value[k \in 0..n] == IF k = 0 THEN 0 ELSE Value[k - 1] * radix + DigitValue(d[k])
            IN [nan |-> n = 0, value |-> sign * Value[n]]
        Unsigned(u, sign) ==
            IF Len(u) >= 2 /\ u[1] = 48 /\ u[2] \in {88, 120}
            THEN Digits(SubSeq(u, 3, Len(u)), 16, sign)
            ELSE Digits(u, 10, sign)
        Signed(t) ==
            IF t # <<>> /\ t[1] \in {43, 45}
            THEN Unsigned(Tail(t), IF t[1] = 45 THEN 0 - 1 ELSE 1)
            ELSE Unsigned(t, 1)
    IN Signed(Trim(s))

\* Array.prototype.sort((a, b) => a - b) of numbers that are pairwise distinct.
SortedSeq(S) ==
    [k \in 1..Cardinality(S) |-> CHOOSE x \in S : Cardinality({y \in S : y < x}) = k - 1]

totalPages == 12

parsePageRanges(ranges) ==
    LET Range(start, end) ==
            IF ~start.nan /\ ~end.nan /\ start.value <= end.value
            THEN start.value..Min(end.value, totalPages)
            ELSE {}
        Single(page) ==
            IF ~page.nan /\ page.value >= 1 /\ page.value <= totalPages
            THEN {page.value}
            ELSE {}
        Ends(ends) == Range(ParseInt(Trim(ends[1])), ParseInt(Trim(ends[2])))
        PagesOf(part) ==
            IF \E i \in 1..Len(part) : part[i] = 45
            THEN Ends(SplitOn(part, 45))
            ELSE Single(ParseInt(part))
        Pages(parts) == UNION {PagesOf(Trim(parts[k])) : k \in 1..Len(parts)}
    IN SortedSeq(Pages(SplitOn(ranges, 44)))

\* The loop of the 'count' method: 1, 1 + pageCount, ... up to totalPages.
EveryNPages(pageCount) ==
    [k \in 1..CeilDiv(totalPages, pageCount) |-> 1 + (k - 1) * pageCount]

\* A state cell that holds null instead of a File.
NoFile == [none |-> TRUE]

acceptedTypes ==
    {Chars(".pdf"), Chars(".docx"), Chars(".doc"), Chars(".txt"), Chars(".pptx"), Chars(".ppt")}

maxTotalSize == 100 * 1024 * 1024

\* The extension test of validateFile, shared by the three screens.
validateFile(file, accepted) == (<<46>> \o FileExtension(file)) \in accepted

\* A variant that accepts every total.
validateAnyTotalSize(files) == TRUE

validateTotalSize(files) == SumSizes(files, Len(files)) <= maxTotalSize

\* A variant that does not compare the extensions.
canMergeAnyFiles(files) == Len(files) >= 2

canMergeFiles(files) ==
    /\ Len(files) >= 2
    /\ Cardinality({FileExtension(files[i]) : i \in 1..Len(files)}) = 1

DefaultFilename == Chars("merged-document")

\* The components as mounted.
MergeDocuments ==
    [kind |-> "merge", uploadedFiles |-> <<>>, isProcessing |-> FALSE, progress |-> 0,
     outputFilename |-> DefaultFilename, mergedBlob |-> NoBlob, toast |-> ""]

SplitDocuments ==
    [kind |-> "split", uploadedFile |-> NoFile, isProcessing |-> FALSE, progress |-> 0,
     splitMethod |-> "pages", pageRanges |-> <<>>, pageCount |-> 1, selectedPages |-> <<>>,
     namingPattern |-> PagePattern, splitFiles |-> <<>>, toast |-> ""]

ExtractText ==
    [kind |-> "extract", uploadedFile |-> NoFile, isProcessing |-> FALSE, progress |-> 0,
     extractedText |-> <<>>, outputFormat |-> "txt", detectedLanguage |-> "", toast |-> ""]

\* setInterval(callback, period): the callback adds step to the progress and
\* holds arg, the value its closure publishes when the progress is complete.
Interval(period, step, arg) == [act |-> "interval", period |-> period, step |-> step, arg |-> arg]

\* The files a user picks: two text files whose extensions differ in case
\* only, a PDF file that cannot be read, and a file of a type no screen takes.
ScreenFiles ==
    {File("a.txt", "text/plain", <<65>>, ReadsOk),
     File("b.TXT", "text/plain", <<66, 10, 67>>, ReadsOk),
     File("e.pdf", "application/pdf", <<37, 80, 68, 70>>, ReadsNever),
     File("x.exe", "application/octet-stream", <<77, 90>>, ReadsOk)}

\* What a file dialog or a drop hands over: one or two files.
Batches == UNION {[1..k -> ScreenFiles] : k \in 1..2}

\* The file picked on a screen that takes one file: the first of a batch.
FirstFiles == {f \in ScreenFiles : f.name # Chars("b.TXT")}

\* What a user types as the output filename.
OutputFilenames == {DefaultFilename, <<>>, <<32, 32>>}

InitScreens ==
    /\ call = NoCall
    /\ result = Pending
    /\ history = <<>>
    /\ clock = 0
    /\ fileReads = NoReads
    /\ browser = NoBrowser
    /\ timers = <<>>
    /\ screen \in {MergeDocuments, SplitDocuments, ExtractText}

\* handleFileSelect of the merge screen, called with the files of a file
\* dialog or of a drop.
Merge_handleFileSelect(files) ==
    /\ screen.kind = "merge"
    /\ LET validFiles == SelectSeq(files, LAMBDA file : validateFile(file, acceptedTypes))
           newFiles == screen.uploadedFiles \o validFiles
       IN /\ Len(newFiles) <= MaxUploaded
          /\ screen' = IF validateTotalSize(newFiles)
                       THEN [screen EXCEPT !.uploadedFiles = newFiles,
                                           !.toast = "Files uploaded successfully"]
                       ELSE [screen EXCEPT !.toast = "Files too large"]
    /\ UNCHANGED <<call, result, history, clock, fileReads, browser, timers>>

handleFileSelect == \E files \in Batches : Merge_handleFileSelect(files)

removeFile ==
    /\ screen.kind = "merge"
    /\ \E index \in 1..Len(screen.uploadedFiles) :
        screen' = [screen EXCEPT !.uploadedFiles = Without(@, index),
                                 !.mergedBlob = NoBlob,
                                 !.progress = 0]
    /\ UNCHANGED <<call, result, history, clock, fileReads, browser, timers>>

moveFile ==
    /\ screen.kind = "merge"
    /\ \E fromIndex, toIndex \in 1..Len(screen.uploadedFiles) :
        LET movedFile == screen.uploadedFiles[fromIndex]
            rest == Without(screen.uploadedFiles, fromIndex)
            newFiles == SubSeq(rest, 1, toIndex - 1) \o <<movedFile>>
                        \o SubSeq(rest, toIndex, Len(rest))
        IN screen' = [screen EXCEPT !.uploadedFiles = newFiles,
                                    !.mergedBlob = NoBlob,
                                    !.progress = 0]
    /\ UNCHANGED <<call, result, history, clock, fileReads, browser, timers>>

\* The filename field is shown once two files are listed.
setOutputFilename ==
    /\ screen.kind = "merge"
    /\ Len(screen.uploadedFiles) > 1
    /\ \E value \in OutputFilenames : screen' = [screen EXCEPT !.outputFilename = value]
    /\ UNCHANGED <<call, result, history, clock, fileReads, browser, timers>>

\* A click on Start Merge, which is disabled when the files cannot be merged,
\* during a run and when the filename is blank; then the handler up to its await.
handleMerge ==
    /\ screen.kind = "merge"
    /\ Len(screen.uploadedFiles) > 1
    /\ ~(~canMergeFiles(screen.uploadedFiles) \/ screen.isProcessing
         \/ Trim(screen.outputFilename) = <<>>)
    /\ LET uploadedFiles == screen.uploadedFiles
           outputFilename == screen.outputFilename
       IN IF ~canMergeFiles(uploadedFiles)
          THEN /\ screen' = [screen EXCEPT !.toast = "Cannot merge files"]
               /\ UNCHANGED <<call, result>>
          ELSE IF Trim(outputFilename) = <<>>
          THEN /\ screen' = [screen EXCEPT !.toast = "Invalid filename"]
               /\ UNCHANGED <<call, result>>
          ELSE IF uploadedFiles = <<>>
          THEN \* uploadedFiles[0].name throws inside the try block
               /\ screen' = [screen EXCEPT !.isProcessing = FALSE, !.progress = 0,
                                           !.mergedBlob = NoBlob, !.toast = "Merge Failed"]
               /\ UNCHANGED <<call, result>>
          ELSE LET extension == FileExtension(uploadedFiles[1])
                   fileExtension == IF extension = <<>> THEN ExtPdf ELSE extension
                   name == outputFilename \o <<46>> \o fileExtension
               IN /\ screen' = [screen EXCEPT !.isProcessing = TRUE, !.progress = 0,
                                              !.mergedBlob = NoBlob]
                  /\ call' = [op |-> "merge", files |-> uploadedFiles, outputFilename |-> name,
                              promise |-> createMergedDocument(uploadedFiles, name)]
                  /\ result' = Pending
    /\ UNCHANGED <<history, clock, fileReads, browser, timers>>

\* The promise of createMergedDocument settles and handleMerge resumes after
\* its await: it sets the progress interval, or catches the rejection.
handleMergeResumes ==
    /\ screen.kind = "merge"
    /\ call.op = "merge"
    /\ result = Pending
    /\ LET mergedFile == call.promise
       IN /\ result' = mergedFile
          /\ call' = NoCall
          /\ IF mergedFile.status = "fulfilled"
             THEN /\ timers' = Append(timers, Interval(200, 10, mergedFile.blob))
                  /\ UNCHANGED screen
             ELSE /\ screen' = [screen EXCEPT !.isProcessing = FALSE, !.toast = "Merge Failed"]
                  /\ UNCHANGED timers
    /\ UNCHANGED <<history, clock, fileReads, browser>>

\* What a user types as page ranges and as the page count, and the pages a
\* user ticks.
PageRangeInputs == {<<>>, Chars("1-2, 5")}

PageCountInputs == {Chars("5"), Chars("")}

TickedPages == {2}

Split_handleFileSelect ==
    /\ screen.kind = "split"
    /\ \E file \in FirstFiles :
           screen' = IF ~validateFile(file, acceptedTypes)
                     THEN [screen EXCEPT !.toast = "Invalid file type"]
                     ELSE IF Size(file) > 50 * 1024 * 1024
                     THEN [screen EXCEPT !.toast = "File too large"]
                     ELSE [screen EXCEPT !.uploadedFile = file, !.selectedPages = <<>>,
                                         !.splitFiles = <<>>, !.progress = 0,
                                         !.toast = "File uploaded successfully"]
    /\ UNCHANGED <<call, result, history, clock, fileReads, browser, timers>>

\* The Remove button next to the uploaded file.
Split_removeFile ==
    /\ screen.kind = "split"
    /\ screen.uploadedFile # NoFile
    /\ screen' = [screen EXCEPT !.uploadedFile = NoFile, !.splitFiles = <<>>, !.progress = 0]
    /\ UNCHANGED <<call, result, history, clock, fileReads, browser, timers>>

\* The split options, shown while a file is uploaded: setSplitMethod,
\* setPageRanges, and setPageCount(parseInt(value) || 1).
\* setPageCount(parseInt(e.target.value) || 1): NaN and 0 are stored as 1.
StoredPageCount(value) ==
    LET n == ParseInt(value)
    IN IF n.nan \/ n.value = 0 THEN 1 ELSE n.value

setSplitOption ==
    /\ screen.kind = "split"
    /\ screen.uploadedFile # NoFile
    /\ \/ \E method \in {"pages", "ranges", "count"} :
            screen' = [screen EXCEPT !.splitMethod = method]
       \/ /\ screen.splitMethod = "ranges"
          /\ \E value \in PageRangeInputs : screen' = [screen EXCEPT !.pageRanges = value]
       \/ /\ screen.splitMethod = "count"
          /\ \E value \in PageCountInputs :
                screen' = [screen EXCEPT !.pageCount = StoredPageCount(value)]
    /\ UNCHANGED <<call, result, history, clock, fileReads, browser, timers>>

togglePageSelection ==
    /\ screen.kind = "split"
    /\ screen.uploadedFile # NoFile
    /\ screen.splitMethod = "pages"
    /\ \E page \in TickedPages :
        LET prev == screen.selectedPages
            ticked == {prev[i] : i \in 1..Len(prev)}
        IN screen' = [screen EXCEPT !.selectedPages =
                         IF page \in ticked
                         THEN SelectSeq(prev, LAMBDA p : p # page)
                         ELSE SortedSeq(ticked \cup {page})]
    /\ UNCHANGED <<call, result, history, clock, fileReads, browser, timers>>

\* A click on Start Split, which is shown while a file is uploaded and is
\* disabled during a run; then the handler up to its await.
handleSplit ==
    /\ screen.kind = "split"
    /\ screen.uploadedFile # NoFile
    /\ ~screen.isProcessing
    /\ LET pagesToSplit == CASE screen.splitMethod = "pages" -> screen.selectedPages
                             [] screen.splitMethod = "ranges" -> parsePageRanges(screen.pageRanges)
                             [] screen.splitMethod = "count" -> EveryNPages(screen.pageCount)
       IN IF pagesToSplit = <<>>
          THEN /\ screen' = [screen EXCEPT !.toast = "No pages selected"]
               /\ UNCHANGED <<call, result>>
          ELSE /\ screen' = [screen EXCEPT !.isProcessing = TRUE, !.progress = 0,
                                           !.splitFiles = <<>>]
               /\ call' = [op |-> "split", originalFile |-> screen.uploadedFile,
                           pageNumbers |-> pagesToSplit, namingPattern |-> screen.namingPattern,
                           promise |-> createSplitDocuments(screen.uploadedFile, pagesToSplit,
                                                            screen.namingPattern)]
               /\ result' = Pending
    /\ UNCHANGED <<history, clock, fileReads, browser, timers>>

\* The promise of createSplitDocuments settles and handleSplit resumes after
\* its await.
handleSplitResumes ==
    /\ screen.kind = "split"
    /\ call.op = "split"
    /\ result = Pending
    /\ LET files == call.promise
       IN /\ result' = files
          /\ call' = NoCall
          /\ IF files.status = "fulfilled"
             THEN /\ timers' = Append(timers, Interval(200, 8, files.artifacts))
                  /\ UNCHANGED screen
             ELSE /\ screen' = [screen EXCEPT !.isProcessing = FALSE, !.toast = "Split Failed"]
                  /\ UNCHANGED timers
    /\ UNCHANGED <<history, clock, fileReads, browser>>

ExtractAcceptedTypes == acceptedTypes \cup {Chars(".jpg"), Chars(".jpeg"), Chars(".png")}

\* The text handleExtract publishes, around the name of the file.
mockText ==
    << Chars("This is extracted text from "),
       Chars(".\n\nLorem ipsum dolor sit amet, consectetur adipiscing elit. Sed do eiusmod tempor incididunt ut labore et dolore magna aliqua. Ut enim ad minim veniam, quis nostrud exercitation ullamco laboris nisi ut aliquip ex ea commodo consequat.\n\nDuis aute irure dolor in reprehenderit in voluptate velit esse cillum dolore eu fugiat nulla pariatur. Excepteur sint occaecat cupidatat non proident, sunt in culpa qui officia deserunt mollit anim id est laborum.\n\nKey Points:\n")
        \o <<8226>>
        \o Chars(" Document processing complete\n")
        \o <<8226>>
        \o Chars(" Text successfully extracted\n")
        \o <<8226>>
        \o Chars(" Multiple format support available\n")
        \o <<8226>>
        \o Chars(" Language detection: English\n\nAdditional content would appear here based on the actual document content. This extraction supports various file formats including PDFs, Word documents, PowerPoint presentations, and images with OCR capability.") >>

Extract_handleFileSelect ==
    /\ screen.kind = "extract"
    /\ \E file \in FirstFiles :
           screen' = IF ~validateFile(file, ExtractAcceptedTypes)
                     THEN [screen EXCEPT !.toast = "Invalid file type"]
                     ELSE IF Size(file) > 25 * 1024 * 1024
                     THEN [screen EXCEPT !.toast = "File too large"]
                     ELSE [screen EXCEPT !.uploadedFile = file, !.extractedText = <<>>,
                                         !.detectedLanguage = "",
                                         !.toast = "File uploaded successfully"]
    /\ UNCHANGED <<call, result, history, clock, fileReads, browser, timers>>

\* The Remove button next to the uploaded file.
Extract_removeFile ==
    /\ screen.kind = "extract"
    /\ screen.uploadedFile # NoFile
    /\ screen' = [screen EXCEPT !.uploadedFile = NoFile]
    /\ UNCHANGED <<call, result, history, clock, fileReads, browser, timers>>

\* A click on Start Extraction, which is shown while a file is uploaded and no
\* text is extracted, and is disabled during a run.
handleExtract ==
    /\ screen.kind = "extract"
    /\ screen.uploadedFile # NoFile
    /\ screen.extractedText = <<>>
    /\ ~screen.isProcessing
    /\ screen' = [screen EXCEPT !.isProcessing = TRUE, !.progress = 0]
    /\ timers' = Append(timers, Interval(150, 5, screen.uploadedFile))
    /\ UNCHANGED <<call, result, history, clock, fileReads, browser>>

\* The callback of a progress interval: it adds its step, or, at 100 or more,
\* clears the interval, publishes the result and ends the run.
IntervalFires ==
    /\ screen.kind \in {"merge", "split", "extract"}
    /\ \E i \in 1..Len(timers) :
        LET interval == timers[i]
        IN /\ interval.act = "interval"
           /\ IF screen.progress >= 100
              THEN /\ timers' = Without(timers, i)
                   /\ screen' =
                        CASE screen.kind = "merge" ->
                               [screen EXCEPT !.progress = 100, !.mergedBlob = interval.arg,
                                              !.isProcessing = FALSE, !.toast = "Merge Complete!"]
                          [] screen.kind = "split" ->
                               [screen EXCEPT !.progress = 100, !.splitFiles = interval.arg,
                                              !.isProcessing = FALSE, !.toast = "Split Complete!"]
                          [] screen.kind = "extract" ->
                               [screen EXCEPT !.progress = 100, !.isProcessing = FALSE,
                                              !.extractedText = mockText[1] \o interval.arg.name
                                                                \o mockText[2],
                                              !.detectedLanguage = "English",
                                              !.toast = "Text Extraction Complete!"]
              ELSE /\ screen' = [screen EXCEPT !.progress = @ + interval.step]
                   /\ UNCHANGED timers
    /\ UNCHANGED <<call, result, history, clock, fileReads, browser>>

NextScreens ==
    \/ handleFileSelect
    \/ removeFile
    \/ moveFile
    \/ setOutputFilename
    \/ handleMerge
    \/ handleMergeResumes
    \/ Split_handleFileSelect
    \/ Split_removeFile
    \/ setSplitOption
    \/ togglePageSelection
    \/ handleSplit
    \/ handleSplitResumes
    \/ Extract_handleFileSelect
    \/ Extract_removeFile
    \/ handleExtract
    \/ IntervalFires

\* The event loop runs a progress interval that is set again and again, and a
\* utility call that is awaited settles.
SpecScreens ==
    /\ InitScreens
    /\ [][NextScreens]_vars
    /\ WF_vars(IntervalFires)
    /\ WF_vars(handleMergeResumes)
    /\ WF_vars(handleSplitResumes)

(***************************************************************************)
(* Properties of the screens                                               *)
(***************************************************************************)

\* A run has ended with its result published or its failure reported.
RunEnded ==
    /\ ~screen.isProcessing
    /\ \/ screen.toast \in {"Merge Failed", "Split Failed"}
       \/ screen.kind = "merge" /\ screen.mergedBlob # NoBlob
       \/ screen.kind = "split" /\ screen.splitFiles # <<>>
       \/ screen.kind = "extract" /\ screen.extractedText # <<>>

\* C19: a merge, split or extract run that has started (isProcessing is true)
\* eventually ends (isProcessing is false) with its result published or its
\* failure reported, whatever the user does meanwhile, as long as the
\* progress interval keeps firing and the awaited call settles.
C19_RunsComplete == screen.isProcessing ~> RunEnded

\* The same for the extract screen alone, where no user action touches the
\* progress.
ExtractRunsComplete == (screen.kind = "extract" /\ screen.isProcessing) ~> RunEnded

\* C20: the merge screen calls createMergedDocument only with its uploaded
\* files when they are at least two, all of one extension (compared in lower
\* case), and the output filename is not blank; and no call from the screen
\* is rejected for an empty list of files.
C20_MergeStartsOnlyWhenMergeable ==
    /\ [][(call.op # "merge" /\ call'.op = "merge") =>
            /\ call'.files = screen.uploadedFiles
            /\ Len(screen.uploadedFiles) >= 2
            /\ \A i, j \in 1..Len(screen.uploadedFiles) :
                  ToLowerCase(LastDotSegment(screen.uploadedFiles[i].name))
                  = ToLowerCase(LastDotSegment(screen.uploadedFiles[j].name))
            /\ Trim(screen.outputFilename) # <<>>]_vars
    /\ [](result.error # NoFilesError)

\* A merge of two files whose extensions differ in case is awaited.
C20_Witness ==
    /\ screen.kind = "merge"
    /\ call.op = "merge"
    /\ result = Pending
    /\ Len(call.files) = 2
    /\ LastDotSegment(call.files[1].name) # LastDotSegment(call.files[2].name)

\* C24: on the merge, split and extract screens progress is an integer from
\* 0 to 100 in every state.
C24_ProgressInRange ==
    screen.kind \in {"merge", "split", "extract"} => screen.progress \in 0..100

\* What holds: progress is an integer from 0 to 100 on the merge and extract
\* screens, whose steps of 10 and 5 divide 100.
MergeExtractProgressInRange ==
    screen.kind \in {"merge", "extract"} => screen.progress \in 0..100

\* C22: on the merge screen a mergedBlob that is not null is the blob
\* createMergedDocument gives for the uploaded list as it is now, in its
\* order now.
C22_MergedBlobOfCurrentList ==
    (screen.kind = "merge" /\ screen.mergedBlob # NoBlob) =>
        screen.mergedBlob
            = createMergedDocument(screen.uploadedFiles, screen.outputFilename).blob

\* C29: on the extract screen, whenever extractedText is not empty a file is
\* uploaded and the text is the extraction that names that file.
C29_TextNamesUploadedFile ==
    (screen.kind = "extract" /\ screen.extractedText # <<>>) =>
        /\ screen.uploadedFile # NoFile
        /\ screen.extractedText = mockText[1] \o screen.uploadedFile.name \o mockText[2]

(***************************************************************************)
(* parsePageRanges on its own: the text of the page ranges field is drawn *)
(* from the strings over digits, comma, hyphen and blank, and the function *)
(* returns the list of pages handleSplit passes on.                        *)
(***************************************************************************)

MaxRangesLen == 4

RangesAlphabet == {48, 49, 50, 44, 45, 32}

InitPageRanges ==
    /\ result = Pending
    /\ EnvIdle
    /\ \E len \in 0..MaxRangesLen : \E ranges \in [1..len -> RangesAlphabet] :
          call = [op |-> "parsePageRanges", ranges |-> ranges]

PageRangesReturns ==
    /\ call.op = "parsePageRanges"
    /\ result.status = "pending"
    /\ result' = [status |-> "returned", pages |-> parsePageRanges(call.ranges)]
    /\ UNCHANGED <<call, envVars>>

NextPageRanges == PageRangesReturns

SpecPageRanges == InitPageRanges /\ [][NextPageRanges]_vars

\* C25: the list parsePageRanges returns is strictly ascending, so without
\* duplicates, and every page of it lies in 1..totalPages.
C25_PagesAscendingInRange ==
    result.status = "returned" =>
        /\ \A k \in 1..(Len(result.pages) - 1) : result.pages[k] < result.pages[k + 1]
        /\ \A k \in 1..Len(result.pages) : result.pages[k] \in 1..totalPages

\* What holds of the list: ascending, and no page above totalPages.
PagesAscendingAtMostTotal ==
    result.status = "returned" =>
        /\ \A k \in 1..(Len(result.pages) - 1) : result.pages[k] < result.pages[k + 1]
        /\ \A k \in 1..Len(result.pages) : result.pages[k] <= totalPages

(***************************************************************************)
(* The loop of the 'count' method, one iteration a step.  The page count   *)
(* input is a number input: its value is the text typed when that text is  *)
(* a number, with or without a sign and a fraction, and the empty string   *)
(* otherwise; min and max of the input do not change the value.  call is   *)
(* the frame of handleSplit: i below -MaxLoopPages is kept as              *)
(* -MaxLoopPages, a list longer than MaxLoopPages as its first             *)
(* MaxLoopPages entries, and odd is the parity of the iterations done.     *)
(***************************************************************************)

MaxLoopPages == 13

MaxCountDigits == 2

CountDigits == {48, 49, 50, 53}

PageCountValues ==
    {<<>>} \cup
    {sign \o digits \o fraction :
        sign \in {<<>>, <<45>>},
        digits \in UNION {[1..n -> CountDigits] : n \in 1..MaxCountDigits},
        fraction \in {<<>>, <<46, 53>>}}

CountFrame(pc, pageCount, i, pagesToSplit, odd) ==
    [op |-> "count", pc |-> pc, pageCount |-> pageCount, i |-> i,
     pagesToSplit |-> pagesToSplit, odd |-> odd]

InitCountLoop ==
    /\ result = Pending
    /\ EnvIdle
    /\ call = CountFrame("idle", 1, 1, <<>>, FALSE)

setPageCount ==
    /\ call.op = "count"
    /\ call.pc = "idle"
    /\ \E value \in PageCountValues :
          call' = [call EXCEPT !.pageCount = StoredPageCount(value)]
    /\ UNCHANGED <<result, envVars>>

\* handleSplit reaches case 'count': let i = 1.
CountLoopStarts ==
    /\ call.op = "count"
    /\ call.pc = "idle"
    /\ call' = [call EXCEPT !.pc = "loop", !.i = 1, !.pagesToSplit = <<>>]
    /\ UNCHANGED <<result, envVars>>

\* i <= totalPages: pagesToSplit.push(i); i += pageCount.
CountLoopStep ==
    /\ call.op = "count"
    /\ call.pc = "loop"
    /\ call.i <= totalPages
    /\ call' = [call EXCEPT
                   !.pagesToSplit = IF Len(@) < MaxLoopPages THEN Append(@, call.i) ELSE @,
                   !.i = IF call.i + call.pageCount < 0 - MaxLoopPages
                         THEN 0 - MaxLoopPages ELSE call.i + call.pageCount,
                   !.odd = ~@]
    /\ UNCHANGED <<result, envVars>>

\* i > totalPages: the loop is left with the list it built.
CountLoopExits ==
    /\ call.op = "count"
    /\ call.pc = "loop"
    /\ call.i > totalPages
    /\ call' = [call EXCEPT !.pc = "done"]
    /\ UNCHANGED <<result, envVars>>

NextCountLoop == setPageCount \/ CountLoopStarts \/ CountLoopStep \/ CountLoopExits

\* The loop is synchronous code: once entered, its next iteration or its exit
\* is taken.
SpecCountLoop ==
    InitCountLoop /\ [][NextCountLoop]_vars
    /\ WF_vars(CountLoopStep) /\ WF_vars(CountLoopExits)

\* C26: for every page count the onChange handler can store, the loop of the
\* 'count' method ends, with the list 1, 1 + N, ... of the pages up to totalPages.
C26_CountLoopTerminates ==
    (call.pc = "loop") ~>
        (call.pc = "done" /\ call.pageCount >= 1
            /\ call.pagesToSplit = EveryNPages(call.pageCount))

\* What holds: with a page count of at least 1 the loop ends with that list.
PositiveCountLoopTerminates ==
    (call.pc = "loop" /\ call.pageCount >= 1) ~>
        (call.pc = "done" /\ call.pagesToSplit = EveryNPages(call.pageCount))

(***************************************************************************)
(* The list of the merge screen under uploads of large files.  The files   *)
(* are given by name and size; no function that reads their contents is    *)
(* applied to them here.                                                   *)
(***************************************************************************)

LargeFile(name, type, size) ==
    [name |-> Chars(name), type |-> Chars(type), bytes |-> <<>>, reads |-> ReadsOk,
     size |-> size]

\* Files of 20MB, 30MB, 40MB, 50MB, a byte more than 50MB, 60MB, 100MB and a
\* byte more than 100MB, an empty file, and a file of a type the screen does
\* not take.
LargeFiles ==
    {LargeFile("c.doc", "application/msword", 20 * 1024 * 1024),
     LargeFile("d.ppt", "application/vnd.ms-powerpoint", 30 * 1024 * 1024),
     LargeFile("f.pptx", "", 40 * 1024 * 1024)} \cup
    {LargeFile("half.pdf", "application/pdf", 50 * 1024 * 1024),
     LargeFile("more.pdf", "application/pdf", 50 * 1024 * 1024 + 1),
     LargeFile("big.PDF", "application/pdf", 60 * 1024 * 1024),
     LargeFile("full.docx", TypeDocx, maxTotalSize),
     LargeFile("over.txt", "text/plain", maxTotalSize + 1),
     LargeFile("empty.txt", "text/plain", 0),
     LargeFile("x.exe", "application/octet-stream", 2 * maxTotalSize)}

\* What a file dialog or a drop hands over: one or two files, large or not.
LargeBatches == UNION {[1..k -> LargeFiles \cup ScreenFiles] : k \in 1..2}

InitUploads ==
    /\ call = NoCall
    /\ result = Pending
    /\ history = <<>>
    /\ clock = 0
    /\ fileReads = NoReads
    /\ browser = NoBrowser
    /\ timers = <<>>
    /\ screen = MergeDocuments

handleLargeFileSelect == \E files \in LargeBatches : Merge_handleFileSelect(files)

NextUploads == handleLargeFileSelect \/ removeFile \/ moveFile

SpecUploads == InitUploads /\ [][NextUploads]_vars

\* The batch of an upload makes the list exceed maxTotalSize.
OverLimit(files) ==
    LET validFiles == SelectSeq(files, LAMBDA file : validateFile(file, acceptedTypes))
        newFiles == screen.uploadedFiles \o validFiles
    IN SumSizes(newFiles, Len(newFiles)) > maxTotalSize

\* C21: on the merge screen, after any upload, removal or reordering, the
\* sizes of the listed files sum to at most 100MB and every listed file has an
\* accepted extension; an upload whose batch would exceed the limit leaves
\* the list as it was.
C21_ListWithinLimit ==
    /\ [](/\ SumSizes(screen.uploadedFiles, Len(screen.uploadedFiles)) <= 100 * 1024 * 1024
          /\ \A i \in 1..Len(screen.uploadedFiles) :
                validateFile(screen.uploadedFiles[i], acceptedTypes))
    /\ [][\A files \in LargeBatches :
             (Merge_handleFileSelect(files) /\ OverLimit(files))
                 => screen'.uploadedFiles = screen.uploadedFiles]_vars

\* A batch over the limit has been turned down while a file is listed.
C21_Witness ==
    /\ screen.toast = "Files too large"
    /\ screen.uploadedFiles # <<>>
    /\ SumSizes(screen.uploadedFiles, Len(screen.uploadedFiles)) = maxTotalSize

(***************************************************************************)
(* Navigation between the tools page and the screens, and the processing   *)
(* options card.  The back button of a screen unmounts it: its state is    *)
(* dropped, and nothing clears the interval it has set.  The callback of   *)
(* an interval whose screen is unmounted updates no state; it clears the   *)
(* interval only if the progress was already 100 at the unmount.  A        *)
(* utility call that an unmounted handler awaits settles with the unmount: *)
(* its continuation sets an interval that no screen owns.                  *)
(***************************************************************************)

MaxTimers == 2

MaxStarts == 2

\* The tools page of Index: no tool is selected.
Index == [kind |-> "tools", toast |-> ""]

\* The card as mounted; starts and processed count the clicks on Start
\* Processing and the calls of onProcess.
ProcessingOptions == [kind |-> "processing", isProcessing |-> FALSE, starts |-> 0, processed |-> 0]

\* An interval of a screen that is unmounted.
Orphan(clears, toast) == [act |-> "orphan", clears |-> clears, toast |-> toast]

CompleteToast(kind) ==
    CASE kind = "merge" -> "Merge Complete!"
      [] kind = "split" -> "Split Complete!"
      [] kind = "extract" -> "Text Extraction Complete!"

InitNavigation ==
    /\ call = NoCall
    /\ result = Pending
    /\ history = <<>>
    /\ clock = 0
    /\ fileReads = NoReads
    /\ browser = NoBrowser
    /\ timers = <<>>
    /\ screen \in {Index, ProcessingOptions}

\* A click on a tool card of the tools page mounts the screen of the tool.
handleToolSelect ==
    /\ screen.kind = "tools"
    /\ Len(timers) < MaxTimers
    /\ screen' \in {MergeDocuments, SplitDocuments, ExtractText}
    /\ UNCHANGED <<call, result, history, clock, fileReads, browser, timers>>

\* A click on the back button of a screen, which is never disabled.
onBack ==
    /\ screen.kind \in {"merge", "split", "extract"}
    /\ LET done == CompleteToast(screen.kind)
           left == [i \in 1..Len(timers) |->
                       IF timers[i].act = "interval"
                       THEN Orphan(screen.progress >= 100, done) ELSE timers[i]]
           awaited == IF call # NoCall /\ call.promise.status = "fulfilled"
                      THEN <<Orphan(FALSE, done)>> ELSE <<>>
       IN /\ timers' = left \o awaited
          /\ result' = IF call # NoCall THEN call.promise ELSE result
    /\ call' = NoCall
    /\ screen' = Index
    /\ UNCHANGED <<history, clock, fileReads, browser>>

\* The callback of an interval whose screen is unmounted, at progress 100.
OrphanFires ==
    /\ \E i \in 1..Len(timers) :
        /\ timers[i].act = "orphan"
        /\ timers[i].clears
        /\ timers' = Without(timers, i)
        /\ screen' = IF "toast" \in DOMAIN screen
                     THEN [screen EXCEPT !.toast = timers[i].toast] ELSE screen
    /\ UNCHANGED <<call, result, history, clock, fileReads, browser>>

\* A click on Start Processing, which is disabled during a run.
handleStartProcessing ==
    /\ screen.kind = "processing"
    /\ ~screen.isProcessing
    /\ screen.starts < MaxStarts
    /\ screen' = [screen EXCEPT !.isProcessing = TRUE, !.starts = @ + 1]
    /\ timers' = Append(timers, [act |-> "timeout", period |-> 3000])
    /\ UNCHANGED <<call, result, history, clock, fileReads, browser>>

\* The callback of the timeout: setIsProcessing(false); onProcess().
ProcessingDone ==
    /\ screen.kind = "processing"
    /\ \E i \in 1..Len(timers) :
        /\ timers[i].act = "timeout"
        /\ timers' = Without(timers, i)
    /\ screen' = [screen EXCEPT !.isProcessing = FALSE, !.processed = @ + 1]
    /\ UNCHANGED <<call, result, history, clock, fileReads, browser>>

NextNavigation ==
    \/ NextScreens
    \/ handleToolSelect
    \/ onBack
    \/ OrphanFires
    \/ handleStartProcessing
    \/ ProcessingDone

SpecNavigation == InitNavigation /\ [][NextNavigation]_vars

\* C28: at most one run is in flight on a screen: at most one timer is set,
\* a timer or an awaited call goes with isProcessing, and on the processing
\* options card onProcess has been called once for every start that is over.
C28_OneRunInFlight ==
    /\ Len(timers) <= 1
    /\ screen.kind \in {"merge", "split", "extract"} =>
          (((\E i \in 1..Len(timers) : timers[i].act = "interval") \/ call # NoCall)
              => screen.isProcessing)
    /\ screen.kind = "processing" =>
          /\ screen.processed + Len(timers) = screen.starts
          /\ screen.isProcessing <=> (timers # <<>>)

\* What holds: the same while the screen stays mounted.
OneRunWhileMounted ==
    \/ \E i \in 1..Len(timers) : timers[i].act = "orphan"
    \/ C28_OneRunInFlight

(***************************************************************************)
(* The convert screen.  An entry of the list is the File with the own      *)
(* properties id, outputFormat, progress and status; a copy made with      *)
(* {...file} has these four only, name and size being accessors of the     *)
(* File prototype.  Math.random ids are fresh: an id is the least number   *)
(* no entry of the list has.  call is the frame of handleConvert while it   *)
(* awaits a timeout of 100 ms: the ids of the list it was called with, the *)
(* position in it, and the loop variable progress.  overallProgress is the *)
(* fraction num / den.                                                     *)
(***************************************************************************)

MaxConvertFiles == 2

ConvertAcceptedTypes ==
    {Chars(".pdf"), Chars(".docx"), Chars(".doc"), Chars(".txt"), Chars(".rtf"),
     Chars(".html"), Chars(".htm")}

ConvertMaxTotalSize == 200 * 1024 * 1024

ConvertFormat ==
    [kind |-> "convert", uploadedFiles |-> <<>>, isProcessing |-> FALSE,
     overallProgress |-> [num |-> 0, den |-> 1], outputFormat |-> "pdf", toast |-> ""]

\* The files a user picks, and the formats a user chooses.
ConvertInputs ==
    {LargeFile("a.txt", "text/plain", 1),
     LargeFile("b.HTML", "text/html", 2),
     LargeFile("huge.pdf", "application/pdf", ConvertMaxTotalSize + 1),
     LargeFile("x.exe", "application/octet-stream", 2)}

ConvertBatches == UNION {[1..k -> ConvertInputs] : k \in 1..2}

ChosenFormats == {"pdf", "txt"}

\* Object.assign(file, {id, outputFormat, progress: 0, status: 'pending'})
ConversionFile(file, id, outputFormat) ==
    [name |-> file.name, size |-> file.size, id |-> id, outputFormat |-> outputFormat,
     progress |-> 0, status |-> "pending"]

\* {...file, ...changes}: the own properties of the entry, then the changes.
Spread(file, changes) ==
    [k \in {"id", "outputFormat", "progress", "status"} |->
        IF k \in DOMAIN changes THEN changes[k] ELSE file[k]]

\* files.map(f => f.id === id ? {...f, ...changes} : f)
SpreadWhere(files, id, changes) ==
    [i \in 1..Len(files) |-> IF files[i].id = id THEN Spread(files[i], changes) ELSE files[i]]

\* validateTotalSize: the sum is NaN once an entry has no size, and NaN is
\* not greater than the limit.
Convert_validateTotalSize(files) ==
    \/ \E i \in 1..Len(files) : "size" \notin DOMAIN files[i]
    \/ SumSizes(files, Len(files)) <= ConvertMaxTotalSize

InitConvertScreen ==
    /\ call = NoCall
    /\ result = Pending
    /\ history = <<>>
    /\ clock = 0
    /\ fileReads = NoReads
    /\ browser = NoBrowser
    /\ timers = <<>>
    /\ screen = ConvertFormat

\* handleFileSelect of the convert screen; the file input and the drop zone
\* are not disabled during a run.
Convert_handleFileSelect ==
    /\ screen.kind = "convert"
    /\ \E files \in ConvertBatches :
        LET used == {screen.uploadedFiles[i].id : i \in 1..Len(screen.uploadedFiles)}
            picked == SelectSeq(files, LAMBDA file : validateFile(file, ConvertAcceptedTypes))
            FreshId(j) == CHOOSE n \in 1..(Cardinality(used) + j) :
                             /\ n \notin used
                             /\ Cardinality({m \in 1..n : m \notin used}) = j
            validFiles == [j \in 1..Len(picked) |->
                              ConversionFile(picked[j], FreshId(j), screen.outputFormat)]
            newFiles == screen.uploadedFiles \o validFiles
        IN /\ Len(newFiles) <= MaxConvertFiles
           /\ screen' = IF Convert_validateTotalSize(newFiles)
                        THEN [screen EXCEPT !.uploadedFiles = newFiles,
                                            !.toast = "Files uploaded successfully"]
                        ELSE [screen EXCEPT !.toast = "Files too large"]
    /\ UNCHANGED <<call, result, history, clock, fileReads, browser, timers>>

\* The remove button of an entry, disabled during a run.
Convert_removeFile ==
    /\ screen.kind = "convert"
    /\ ~screen.isProcessing
    /\ \E i \in 1..Len(screen.uploadedFiles) :
        screen' = [screen EXCEPT !.uploadedFiles =
                      SelectSeq(@, LAMBDA file : file.id # screen.uploadedFiles[i].id)]
    /\ UNCHANGED <<call, result, history, clock, fileReads, browser, timers>>

\* The format buttons of the screen, and the format select of an entry,
\* which is disabled during a run.
setOutputFormat ==
    /\ screen.kind = "convert"
    /\ \E format \in ChosenFormats :
        \/ screen' = [screen EXCEPT !.outputFormat = format]
        \/ /\ ~screen.isProcessing
           /\ \E i \in 1..Len(screen.uploadedFiles) :
                screen' = [screen EXCEPT !.uploadedFiles =
                              SpreadWhere(@, screen.uploadedFiles[i].id,
                                          [outputFormat |-> format])]
    /\ UNCHANGED <<call, result, history, clock, fileReads, browser, timers>>

\* A click on Convert, disabled while the list is empty and during a run;
\* then the handler up to its first await.
handleConvert ==
    /\ screen.kind = "convert"
    /\ ~(Len(screen.uploadedFiles) = 0 \/ screen.isProcessing)
    /\ LET uploadedFiles == screen.uploadedFiles
       IN /\ screen' = [screen EXCEPT
                           !.isProcessing = TRUE,
                           !.overallProgress = [num |-> 0, den |-> 1],
                           !.uploadedFiles =
                               [i \in 1..Len(@) |-> Spread(@[i], [status |-> "converting"])]]
          /\ call' = [op |-> "handleConvert",
                      files |-> [i \in 1..Len(uploadedFiles) |-> uploadedFiles[i].id],
                      totalFiles |-> Len(uploadedFiles), completedFiles |-> 0,
                      index |-> 1, progress |-> 0]
    /\ timers' = <<[act |-> "timeout", period |-> 100]>>
    /\ UNCHANGED <<result, history, clock, fileReads, browser>>

\* The timeout handleConvert awaits fires, and the handler runs to its next
\* await or to its end.
ConvertTimeoutFires ==
    /\ screen.kind = "convert"
    /\ call.op = "handleConvert"
    /\ LET id == call.files[call.index]
           stepped == SpreadWhere(screen.uploadedFiles, id, [progress |-> call.progress])
           completed == SpreadWhere(stepped, id, [status |-> "completed", progress |-> 100])
           completedFiles == call.completedFiles + 1
           overall == [num |-> completedFiles * 100, den |-> call.totalFiles]
       IN IF call.progress + 10 <= 100
          THEN /\ screen' = [screen EXCEPT !.uploadedFiles = stepped]
               /\ call' = [call EXCEPT !.progress = @ + 10]
               /\ UNCHANGED timers
          ELSE IF call.index < call.totalFiles
          THEN /\ screen' = [screen EXCEPT !.uploadedFiles = completed,
                                           !.overallProgress = overall]
               /\ call' = [call EXCEPT !.completedFiles = completedFiles,
                                       !.index = @ + 1, !.progress = 0]
               /\ UNCHANGED timers
          ELSE /\ screen' = [screen EXCEPT !.uploadedFiles = completed,
                                           !.overallProgress = overall,
                                           !.isProcessing = FALSE,
                                           !.toast = "Conversion Complete!"]
               /\ call' = NoCall
               /\ timers' = <<>>
    /\ UNCHANGED <<result, history, clock, fileReads, browser>>

NextConvertScreen ==
    \/ Convert_handleFileSelect
    \/ Convert_removeFile
    \/ setOutputFormat
    \/ handleConvert
    \/ ConvertTimeoutFires

SpecConvertScreen == InitConvertScreen /\ [][NextConvertScreen]_vars

\* Every entry of the list is completed, with progress 100.
AllCompleted(files) ==
    \A i \in 1..Len(files) : files[i].status = "completed" /\ files[i].progress = 100

\* C27: when a conversion run ends, every file of the list is completed with
\* progress 100 and overallProgress is 100; during the run overallProgress
\* never decreases.
C27_RunEndsAllCompleted ==
    [][/\ (screen.isProcessing /\ ~screen'.isProcessing) =>
            /\ screen'.toast = "Conversion Complete!"
            /\ AllCompleted(screen'.uploadedFiles)
            /\ screen'.overallProgress.num = 100 * screen'.overallProgress.den
       /\ (screen.isProcessing /\ screen'.isProcessing) =>
            screen'.overallProgress.num * screen.overallProgress.den
                >= screen.overallProgress.num * screen'.overallProgress.den]_vars

\* What holds: when a run ends, the files the run was started with are
\* completed, and overallProgress has not decreased and is 100.
RunEndsStartedCompleted ==
    [][/\ (screen.isProcessing /\ ~screen'.isProcessing) =>
            /\ screen'.toast = "Conversion Complete!"
            /\ \A i \in 1..Len(screen'.uploadedFiles) :
                  (\E j \in 1..Len(call.files) : call.files[j] = screen'.uploadedFiles[i].id)
                      => (screen'.uploadedFiles[i].status = "completed"
                          /\ screen'.uploadedFiles[i].progress = 100)
            /\ screen'.overallProgress.num = 100 * screen'.overallProgress.den
       /\ (screen.isProcessing /\ screen'.isProcessing) =>
            screen'.overallProgress.num * screen.overallProgress.den
                >= screen.overallProgress.num * screen'.overallProgress.den]_vars

====
